---- MODULE Spec2Model ----
(***************************************************************************)
(* Risk analytics and alerting engine of the financial-risk-monitor        *)
(* backend: the deduplicating alert generator (AlertGeneratorService), the *)
(* alert lifecycle (AlertService, AlertManager), the pre-trade evaluation  *)
(* and the lazily created thresholds (RiskEngineService) and the monitor   *)
(* pass over all portfolios.                                               *)
(*                                                                         *)
(* Time is counted in minutes.  Money and ratios are integers: ratios are  *)
(* compared by cross-multiplication, so no division is rounded.            *)
(***************************************************************************)
EXTENDS Integers, Sequences, FiniteSets, TLC

VARIABLES
    now,             \* time.Now(), in minutes
    alerts,          \* the alerts table: a sequence of rows, a row's id is its index
    gen,             \* per evaluator: where it is inside generate...Alert
    alert_cache,     \* Redis keys alert:<id>
    active_alerts,   \* Redis set active_alerts
    alerts_channel,  \* ids published on the Redis channel alerts_channel
    portfolio_tbl,   \* the portfolios table with its preloaded positions
    risk_thresholds, \* the risk_thresholds table: a sequence of rows
    eval,            \* per request: where it is inside RiskEngineService
    approval,        \* an analysis handed to determineApprovalStatus, and its result
    pass,            \* the monitor pass over all portfolios
    risk_updates,    \* events published on the Redis channel risk_updates
    quit,            \* the process has received os.Interrupt or SIGTERM
    auth,            \* the users table, and the Register calls under way
    transactions_tbl, \* per portfolio: the transactions of the last 24 hours
    hub,             \* the websocket Hub, its clients and their goroutines
    risk_metrics,    \* the risk_metrics table: a sequence of rows
    risk_history,    \* the risk_history table: a sequence of rows
    svc,             \* the RiskService call under way, and what it returned
    calc             \* a calculator call: its arguments, and what it returned

alertVars == <<now, alerts, gen, alert_cache, active_alerts, alerts_channel>>

redisVars == <<alert_cache, active_alerts, alerts_channel>>

serviceVars == <<quit, auth, transactions_tbl, hub, risk_metrics, risk_history, svc, calc>>

engineVars == <<portfolio_tbl, risk_thresholds, eval, approval, pass,
                risk_updates, quit, auth, transactions_tbl, hub, risk_metrics, risk_history, svc, calc>>

vars == <<now, alerts, gen, alert_cache, active_alerts, alerts_channel,
          portfolio_tbl, risk_thresholds, eval, approval, pass,
          risk_updates, quit, auth, transactions_tbl, hub, risk_metrics, risk_history, svc, calc>>

----------------------------------------------------------------------------
(* Bounds of the model *)

MaxAlerts == 2

Portfolios == {"p1", "p2"}

Evaluators == {"e1", "e2"}

\* the instants at which the clock is observed, in minutes
Instants == {0, 5, 15, 30, 60}

----------------------------------------------------------------------------
(* AlertGeneratorService: deduplication windows, in minutes *)

VaRAlertWindow == 10

LiquidityAlertWindow == 15

PositionLimitAlertWindow == 5

AMLAlertWindow == 60

VelocityAlertWindow == 30

Sources ==
    {"VAR_CALCULATOR", "LIQUIDITY_CALCULATOR", "POSITION_LIMIT_CHECKER",
     "AML_CHECKER", "VELOCITY_CHECKER"}

\* the AlertType each generator writes into its alert
AlertTypeOf(source) ==
    CASE source = "VAR_CALCULATOR" -> "RISK_BREACH"
      [] source = "LIQUIDITY_CALCULATOR" -> "LIQUIDITY_RISK"
      [] source = "POSITION_LIMIT_CHECKER" -> "COMPLIANCE_VIOLATION"
      [] source = "AML_CHECKER" -> "SUSPICIOUS_ACTIVITY"
      [] source = "VELOCITY_CHECKER" -> "SUSPICIOUS_ACTIVITY"

\* the window each generator passes to alertExists
WindowOf(source) ==
    CASE source = "VAR_CALCULATOR" -> VaRAlertWindow
      [] source = "LIQUIDITY_CALCULATOR" -> LiquidityAlertWindow
      [] source = "POSITION_LIMIT_CHECKER" -> PositionLimitAlertWindow
      [] source = "AML_CHECKER" -> AMLAlertWindow
      [] source = "VELOCITY_CHECKER" -> VelocityAlertWindow

\* alertExists with cutoff := time.Now().Add(within): the sign of the window lost
alertExistsFutureCutoff(portfolioID, alertType, within) ==
    \E i \in DOMAIN alerts :
        /\ alerts[i].portfolio_id = portfolioID
        /\ alerts[i].alert_type = alertType
        /\ alerts[i].status = "ACTIVE"
        /\ alerts[i].created_at > now + within

\* alertExists without the status = 'ACTIVE' condition
alertExistsAnyStatus(portfolioID, alertType, within) ==
    \E i \in DOMAIN alerts :
        /\ alerts[i].portfolio_id = portfolioID
        /\ alerts[i].alert_type = alertType
        /\ alerts[i].created_at > now - within

\* SELECT count(*) FROM alerts WHERE portfolio_id = ? AND alert_type = ?
\*   AND status = 'ACTIVE' AND created_at > now - within;  return count > 0
alertExists(portfolioID, alertType, within) ==
    \E i \in DOMAIN alerts :
        /\ alerts[i].portfolio_id = portfolioID
        /\ alerts[i].alert_type = alertType
        /\ alerts[i].status = "ACTIVE"
        /\ alerts[i].created_at > now - within

Idle == [pc |-> "idle", portfolio_id |-> "none", source |-> "none"]

Returned == [pc |-> "returned", portfolio_id |-> "none", source |-> "none"]

\* the inserts evaluators are about to attempt
InFlight == Cardinality({e \in Evaluators : gen[e].pc = "store"})

\* the models.Alert value a generator builds; gorm stamps CreatedAt on insert
NewAlert(portfolioID, source) ==
    [portfolio_id |-> portfolioID,
     alert_type   |-> AlertTypeOf(source),
     source       |-> source,
     status       |-> "ACTIVE",
     created_at   |-> now]

----------------------------------------------------------------------------
(* AlertGeneratorService *)

\* generateVaRAlert, generateLiquidityAlert, generatePositionLimitAlert,
\* generateAMLAlert, generateVelocityAlert, up to the call of
\* storeAndBroadcastAlert:  if a.alertExists(id, type, window) { return }
GenerateAlert(e, portfolioID, source) ==
    /\ gen[e].pc = "idle"
    /\ Len(alerts) + InFlight < MaxAlerts
    /\ IF alertExists(portfolioID, AlertTypeOf(source), WindowOf(source))
          THEN gen' = [gen EXCEPT ![e] = Returned]
          ELSE gen' = [gen EXCEPT ![e] = [pc |-> "store",
                                          portfolio_id |-> portfolioID,
                                          source |-> source]]
    /\ UNCHANGED <<now, alerts, alert_cache, active_alerts, alerts_channel>>
    /\ UNCHANGED engineVars

\* storeAndBroadcastAlert without the return on a failed Create
BroadcastIgnoringError(id, createFailed) ==
    /\ alert_cache' = alert_cache \cup {id}
    /\ active_alerts' = active_alerts \cup {id}
    /\ alerts_channel' = alerts_channel \cup {id}

\* what storeAndBroadcastAlert does after a.db.Create(&alert), given its error
Broadcast(id, createFailed) ==
    IF createFailed
       THEN UNCHANGED <<alert_cache, active_alerts, alerts_channel>>
       ELSE /\ alert_cache' = alert_cache \cup {id}
            /\ active_alerts' = active_alerts \cup {id}
            /\ alerts_channel' = alerts_channel \cup {id}

\* storeAndBroadcastAlert as an atomic insert-unless-a-recent-alert-exists
StoreUnlessExists(e) ==
    /\ gen[e].pc = "store"
    /\ \/ /\ ~alertExists(gen[e].portfolio_id, AlertTypeOf(gen[e].source),
                          WindowOf(gen[e].source))
          /\ alerts' = Append(alerts, NewAlert(gen[e].portfolio_id, gen[e].source))
          /\ Broadcast(Len(alerts) + 1, FALSE)
       \/ /\ alerts' = alerts
          /\ Broadcast(Len(alerts) + 1, TRUE)
    /\ gen' = [gen EXCEPT ![e] = Returned]
    /\ UNCHANGED now
    /\ UNCHANGED engineVars

\* storeAndBroadcastAlert: Create, then Set alert:<id>, SAdd active_alerts, Publish
StoreAndBroadcastAlert(e) ==
    /\ gen[e].pc = "store"
    /\ \/ /\ alerts' = Append(alerts, NewAlert(gen[e].portfolio_id, gen[e].source))
          /\ Broadcast(Len(alerts) + 1, FALSE)
       \/ /\ alerts' = alerts
          /\ Broadcast(Len(alerts) + 1, TRUE)
    /\ gen' = [gen EXCEPT ![e] = Returned]
    /\ UNCHANGED now
    /\ UNCHANGED engineVars

\* the generator returns to checkPortfolioRisks
Return(e) ==
    /\ gen[e].pc = "returned"
    /\ gen' = [gen EXCEPT ![e] = Idle]
    /\ UNCHANGED <<now, alerts, alert_cache, active_alerts, alerts_channel>>
    /\ UNCHANGED engineVars

----------------------------------------------------------------------------
(* AlertManager and AlertService *)

\* AlertManager.CreateAlert: Create, then Set alert:<id>, SAdd active_alerts, Publish.
\* A failed Create returns its error and changes nothing.
MgrCreateAlert(portfolioID, source) ==
    /\ Len(alerts) + InFlight < MaxAlerts
    /\ alerts' = Append(alerts, NewAlert(portfolioID, source))
    /\ alert_cache' = alert_cache \cup {Len(alerts) + 1}
    /\ active_alerts' = active_alerts \cup {Len(alerts) + 1}
    /\ alerts_channel' = alerts_channel \cup {Len(alerts) + 1}
    /\ UNCHANGED <<now, gen>>
    /\ UNCHANGED engineVars

\* UPDATE alerts SET status = ? WHERE id = ?
UpdateStatus(id, status) ==
    alerts' = [alerts EXCEPT ![id].status = status]

\* AlertService.AcknowledgeAlert
SvcAcknowledgeAlert(id) ==
    /\ id \in DOMAIN alerts
    /\ UpdateStatus(id, "ACKNOWLEDGED")
    /\ UNCHANGED <<now, gen, alert_cache, active_alerts, alerts_channel>>
    /\ UNCHANGED engineVars

\* AlertService.ResolveAlert
SvcResolveAlert(id) ==
    /\ id \in DOMAIN alerts
    /\ UpdateStatus(id, "RESOLVED")
    /\ UNCHANGED <<now, gen, alert_cache, active_alerts, alerts_channel>>
    /\ UNCHANGED engineVars

\* AlertManager.AcknowledgeAlert: the UPDATE, then SRem active_alerts
MgrAcknowledgeAlert(id) ==
    /\ id \in DOMAIN alerts
    /\ UpdateStatus(id, "ACKNOWLEDGED")
    /\ active_alerts' = active_alerts \ {id}
    /\ UNCHANGED <<now, gen, alert_cache, alerts_channel>>
    /\ UNCHANGED engineVars

\* AlertManager.ResolveAlert: the UPDATE, then Del alert:<id>, SRem active_alerts
MgrResolveAlert(id) ==
    /\ id \in DOMAIN alerts
    /\ UpdateStatus(id, "RESOLVED")
    /\ alert_cache' = alert_cache \ {id}
    /\ active_alerts' = active_alerts \ {id}
    /\ UNCHANGED <<now, gen, alerts_channel>>
    /\ UNCHANGED engineVars

\* time passes
Tick(t) ==
    /\ t > now
    /\ now' = t
    /\ UNCHANGED <<alerts, gen, alert_cache, active_alerts, alerts_channel>>
    /\ UNCHANGED engineVars

----------------------------------------------------------------------------
(* decimal.Decimal values as exact fractions num/den with den > 0.  The     *)
(* amounts of the model are small integers, so the 16 digits to which       *)
(* Decimal.Div rounds never decide a comparison.                            *)

Abs(n) == IF n < 0 THEN -n ELSE n

RECURSIVE GCD(_, _)
GCD(a, b) == IF b = 0 THEN a ELSE GCD(b, a % b)

\* the fraction n/d in lowest terms
Rat(n, d) ==
    LET g == GCD(Abs(n), Abs(d))
    IN  [num |-> n \div g, den |-> d \div g]

RatAdd(a, b) == Rat(a.num * b.den + b.num * a.den, a.den * b.den)

RatSub(a, b) == Rat(a.num * b.den - b.num * a.den, a.den * b.den)

RatMul(a, b) == Rat(a.num * b.num, a.den * b.den)

RatGreaterThan(a, b) == a.num * b.den > b.num * a.den

RatLessThan(a, b) == a.num * b.den < b.num * a.den

\* float64 values are fractions too; x/0 is +Inf or -Inf (num 1 or -1, den 0)
\* and 0/0 is NaN (num 0, den 0), so that the comparisons by
\* cross-multiplication are those of IEEE 754: every comparison with NaN is
\* false.
NaN == [num |-> 0, den |-> 0]

\* a float64 from a numerator and a denominator of any sign
Float(n, d) ==
    IF d = 0 /\ n = 0 THEN NaN
    ELSE IF d < 0 THEN Rat(-n, -d) ELSE Rat(n, d)

FloatDiv(a, b) == Float(a.num * b.den, a.den * b.num)

FloatMul(a, b) == Float(a.num * b.num, a.den * b.den)

FloatAdd(a, b) ==
    IF a.den = 0 /\ b.den = 0
       THEN IF a.num = b.num THEN a ELSE NaN
       ELSE Float(a.num * b.den + b.num * a.den, a.den * b.den)

\* math.Max(a, b) and math.Min(a, b): NaN if either is NaN
FloatMax(a, b) == IF a = NaN \/ b = NaN THEN NaN ELSE IF RatLessThan(a, b) THEN b ELSE a

FloatMin(a, b) == IF a = NaN \/ b = NaN THEN NaN ELSE IF RatLessThan(b, a) THEN b ELSE a

\* x >= y on float64: false when either is NaN
FloatGeq(x, y) == (x = y /\ x /= NaN) \/ RatGreaterThan(x, y)

----------------------------------------------------------------------------
(* models.RiskThresholds and the portfolios under evaluation *)

\* models.GetDefaultThresholds
GetDefaultThresholds(portfolioID) ==
    [portfolio_id           |-> portfolioID,
     MaxVaR95               |-> Rat(5, 100),
     MaxVaR99               |-> Rat(10, 100),
     MaxPositionSize        |-> Rat(25, 100),
     MaxSingleAssetExposure |-> Rat(30, 100),
     MaxSectorExposure      |-> Rat(40, 100),
     MinLiquidityRatio      |-> Rat(30, 100),
     MaxLeverage            |-> Rat(2, 1),
     MaxConcentration       |-> Rat(35, 100),
     MaxDailyLoss           |-> Rat(3, 100),
     MaxWeeklyLoss          |-> Rat(7, 100),
     MaxDrawdown            |-> Rat(15, 100),
     RequireStopLoss        |-> TRUE,
     MaxStopLossDistance    |-> Rat(5, 100)]

\* rows an administrator has stored: a lenient desk (no liquidity floor, no
\* stop-loss duty, larger positions) and a VaR limit below zero
AdminThresholds(portfolioID) ==
    {[GetDefaultThresholds(portfolioID) EXCEPT !.MinLiquidityRatio = Rat(-10, 100),
                                               !.MaxPositionSize = Rat(50, 100),
                                               !.RequireStopLoss = FALSE],
     [GetDefaultThresholds(portfolioID) EXCEPT !.MaxVaR95 = Rat(-1, 100)]}

\* a portfolio row with the market values of its preloaded positions:
\* as CreatePortfolio leaves it, funded without positions, funded and invested
PortfolioRows ==
    {[TotalValue |-> 0, Positions |-> <<>>],
     [TotalValue |-> 100, Positions |-> <<>>],
     [TotalValue |-> 100, Positions |-> <<60, 40>>]}

\* the transactions submitted for evaluation
TxQuantities == {-10, -5, 1, 2, 3, 10, 30}

TxPrices == {10}

TxStopLosses == {0, 9}

Transactions ==
    [Quantity : TxQuantities, Price : TxPrices, StopLoss : TxStopLosses]

Requests == {"r1", "r2"}

\* portfolio ids a request may name; p0 is no row of the portfolios table
RequestedPortfolios == Portfolios \cup {"p0"}

\* NewRiskEngineService: calculator.NewLiquidityCalculator(nil)
marketData == "nil"

----------------------------------------------------------------------------
(* RiskEngineService.EvaluateTransaction, check by check *)

Violation(type, severity) == [Type |-> type, Severity |-> severity]

\* 1. position size: nil when TotalValue is zero
checkPositionSizeLimit(tx, portfolio, thresholds) ==
    LET tradeValue == tx.Quantity * tx.Price
    IN  IF portfolio.TotalValue = 0
           THEN <<>>
           ELSE IF RatGreaterThan(Rat(tradeValue, portfolio.TotalValue),
                                  thresholds.MaxPositionSize)
                   THEN <<Violation("POSITION_SIZE", "VIOLATION")>>
                   ELSE <<>>

\* a current VaR95 of 10%, as a price history with losses would give
CalculateVaR95WithHistory(positions) == Rat(10, 100)

\* VaRCalculator.CalculateVaR(positions, priceHistory, 1).VaR95 on the empty
\* price history the service passes: no returns, so the historical, the
\* parametric and the Monte Carlo VaR are 0, and so is their average
CalculateVaR95(positions) == Rat(0, 1)

\* 2. VaR impact: newVaR = currentVaR * (1 + 0.02)
calculateVaRImpact(tx, portfolio, thresholds) ==
    LET estimatedImpact == Rat(2, 100)
        currentVaR == CalculateVaR95(portfolio.Positions)
        newVaR == RatMul(currentVaR, RatAdd(Rat(1, 1), estimatedImpact))
    IN  [PortfolioImpact |-> estimatedImpact,
         Violation |-> IF RatGreaterThan(newVaR, thresholds.MaxVaR95)
                          THEN <<Violation("VAR_LIMIT", "CRITICAL")>>
                          ELSE <<>>]

\* sum of weight * weight over the positions, weight = MarketValue / totalValue
RECURSIVE Herfindahl(_, _)
Herfindahl(positions, totalValue) ==
    IF positions = <<>>
       THEN Rat(0, 1)
       ELSE RatAdd(Herfindahl(Tail(positions), totalValue),
                   RatMul(Rat(Head(positions), totalValue),
                          Rat(Head(positions), totalValue)))

\* 3. concentration.  newPositionValue.Div(newTotalValue) panics when the
\* trade takes the whole value out of the portfolio.
checkConcentrationRisk(tx, portfolio, thresholds) ==
    LET totalValue == portfolio.TotalValue
        newPositionValue == tx.Quantity * tx.Price
        newTotalValue == totalValue + newPositionValue
    IN  IF totalValue = 0
           THEN [panic |-> FALSE, Impact |-> Rat(0, 1), Violation |-> <<>>]
           ELSE IF newTotalValue = 0
                   THEN [panic |-> TRUE]
                   ELSE LET hhi == Herfindahl(portfolio.Positions, totalValue)
                            \* the square carries the sign away: a fraction over a
                            \* positive denominator
                            newWeight2 == Rat(newPositionValue * newPositionValue,
                                              newTotalValue * newTotalValue)
                            newHHI == RatAdd(hhi, newWeight2)
                        IN  [panic |-> FALSE,
                             Impact |-> RatSub(newHHI, hhi),
                             Violation |->
                                 IF RatGreaterThan(newHHI, thresholds.MaxConcentration)
                                    THEN <<Violation("CONCENTRATION_LIMIT", "WARNING")>>
                                    ELSE <<>>]

\* LiquidityCalculator.CalculateLiquidity(positions, portfolioValue).LiquidityRatio
\* as the engine receives it.  analyzePositionLiquidity asks marketData for
\* every position: a call on the nil provider panics.  Without positions the
\* ratio is 0.0 / portfolioValue, NaN for a portfolio worth nothing, and
\* decimal.NewFromFloat(NaN) panics.
CalculateLiquidity(positions, portfolioValue) ==
    IF positions /= <<>> /\ marketData = "nil"
       THEN [panic |-> TRUE]
       ELSE IF portfolioValue = 0
               THEN [panic |-> TRUE]
               ELSE [panic |-> FALSE, LiquidityRatio |-> Rat(0, 1)]

\* 4. liquidity impact: the ratio less 0.05 against MinLiquidityRatio
checkLiquidityImpact(tx, portfolio, thresholds) ==
    LET liquidityResult == CalculateLiquidity(portfolio.Positions, portfolio.TotalValue)
    IN  IF liquidityResult.panic
           THEN [panic |-> TRUE]
           ELSE LET estimatedImpact == Rat(5, 100)
                    newLiquidityRatio ==
                        RatSub(liquidityResult.LiquidityRatio, estimatedImpact)
                IN  [panic |-> FALSE,
                     Impact |-> estimatedImpact,
                     Violation |->
                         IF RatLessThan(newLiquidityRatio, thresholds.MinLiquidityRatio)
                            THEN <<Violation("LIQUIDITY_RATIO", "WARNING")>>
                            ELSE <<>>]

\* 5. stop loss
checkStopLoss(tx, thresholds) ==
    IF thresholds.RequireStopLoss /\ tx.StopLoss = 0
       THEN <<Violation("STOP_LOSS_REQUIRED", "WARNING")>>
       ELSE <<>>

RECURSIVE SeverityPoints(_)
\* the loop of calculateRiskScore: 30, 20 and 10 points by severity
SeverityPoints(violations) ==
    IF violations = <<>>
       THEN 0
       ELSE SeverityPoints(Tail(violations))
            + (CASE Head(violations).Severity = "CRITICAL" -> 30
                 [] Head(violations).Severity = "VIOLATION" -> 20
                 [] Head(violations).Severity = "WARNING" -> 10
                 [] OTHER -> 0)

\* calculateRiskScore without the cap at 100
calculateRiskScoreNoCap(analysis) ==
    RatAdd(RatAdd(RatAdd(Rat(SeverityPoints(analysis.Violations), 1),
                         RatMul(analysis.PortfolioImpact, Rat(20, 1))),
                  RatMul(RatMul(analysis.ConcentrationImpact, Rat(100, 1)), Rat(15, 1))),
           RatMul(analysis.LiquidityImpact, Rat(15, 1)))

\* 6. risk score
calculateRiskScore(analysis) ==
    LET score ==
            RatAdd(RatAdd(RatAdd(Rat(SeverityPoints(analysis.Violations), 1),
                                 RatMul(analysis.PortfolioImpact, Rat(20, 1))),
                          RatMul(RatMul(analysis.ConcentrationImpact, Rat(100, 1)),
                                 Rat(15, 1))),
                   RatMul(analysis.LiquidityImpact, Rat(15, 1)))
    IN  IF RatGreaterThan(score, Rat(100, 1)) THEN Rat(100, 1) ELSE score

criticalCount(violations) ==
    Len(SelectSeq(violations, LAMBDA v : v.Severity = "CRITICAL"))

\* determineApprovalStatus without the count of CRITICAL violations
determineApprovalStatusNoCritical(analysis) ==
    IF RatGreaterThan(analysis.RiskScore, Rat(70, 1)) \/ Len(analysis.Violations) > 2
       THEN [approved |-> FALSE, requiresReview |-> TRUE]
       ELSE IF RatLessThan(analysis.RiskScore, Rat(30, 1))
                  /\ Len(analysis.Violations) = 0
               THEN [approved |-> TRUE, requiresReview |-> FALSE]
               ELSE [approved |-> FALSE, requiresReview |-> TRUE]

\* determineApprovalStatus deciding on the score alone once nothing is CRITICAL
determineApprovalStatusByScore(analysis) ==
    IF criticalCount(analysis.Violations) > 0
       THEN [approved |-> FALSE, requiresReview |-> FALSE]
       ELSE IF RatGreaterThan(analysis.RiskScore, Rat(70, 1))
                  \/ Len(analysis.Violations) > 2
               THEN [approved |-> FALSE, requiresReview |-> TRUE]
               ELSE IF RatLessThan(analysis.RiskScore, Rat(30, 1))
                       THEN [approved |-> TRUE, requiresReview |-> FALSE]
                       ELSE [approved |-> FALSE, requiresReview |-> TRUE]

\* 7. approval status
determineApprovalStatus(analysis) ==
    IF criticalCount(analysis.Violations) > 0
       THEN [approved |-> FALSE, requiresReview |-> FALSE]
       ELSE IF RatGreaterThan(analysis.RiskScore, Rat(70, 1))
                  \/ Len(analysis.Violations) > 2
               THEN [approved |-> FALSE, requiresReview |-> TRUE]
               ELSE IF RatLessThan(analysis.RiskScore, Rat(30, 1))
                          /\ Len(analysis.Violations) = 0
                       THEN [approved |-> TRUE, requiresReview |-> FALSE]
                       ELSE [approved |-> FALSE, requiresReview |-> TRUE]

\* a row AlertService.CreateAlert inserts for the risk engine
EngineAlert(portfolioID, alertType, severity, title, source) ==
    [portfolio_id |-> portfolioID,
     alert_type   |-> alertType,
     source       |-> source,
     status       |-> "ACTIVE",
     created_at   |-> now,
     severity     |-> severity,
     title        |-> title]

RECURSIVE RiskAlertsOf(_, _)
\* the loop of createRiskAlerts: one alert for each CRITICAL or VIOLATION
RiskAlertsOf(portfolioID, violations) ==
    IF violations = <<>>
       THEN <<>>
       ELSE (IF Head(violations).Severity \in {"CRITICAL", "VIOLATION"}
                THEN <<EngineAlert(portfolioID, "RISK_VIOLATION",
                                   Head(violations).Severity,
                                   Head(violations).Type, "RISK_ENGINE")>>
                ELSE <<>>)
            \o RiskAlertsOf(portfolioID, Tail(violations))

\* createRiskAlerts only for a rejected trade
createRiskAlertsOnReject(portfolioID, analysis) ==
    IF ~analysis.Approved /\ ~analysis.RequiresReview /\ Len(analysis.Violations) > 0
       THEN RiskAlertsOf(portfolioID, analysis.Violations)
       ELSE <<>>

\* 10. if !analysis.Approved && len(analysis.Violations) > 0 { createRiskAlerts }
createRiskAlerts(portfolioID, analysis) ==
    IF ~analysis.Approved /\ Len(analysis.Violations) > 0
       THEN RiskAlertsOf(portfolioID, analysis.Violations)
       ELSE <<>>

\* steps 1 to 7 of EvaluateTransaction: the analysis, or a panic on the way
Analyse(tx, portfolio, thresholds) ==
    LET position == checkPositionSizeLimit(tx, portfolio, thresholds)
        varImpact == calculateVaRImpact(tx, portfolio, thresholds)
        concentration == checkConcentrationRisk(tx, portfolio, thresholds)
        liquidity == checkLiquidityImpact(tx, portfolio, thresholds)
    IN  IF concentration.panic \/ liquidity.panic
           THEN [panic |-> TRUE]
           ELSE LET checked ==
                        [Violations |-> position \o varImpact.Violation
                                        \o concentration.Violation
                                        \o liquidity.Violation
                                        \o checkStopLoss(tx, thresholds),
                         PortfolioImpact |-> varImpact.PortfolioImpact,
                         ConcentrationImpact |-> concentration.Impact,
                         LiquidityImpact |-> liquidity.Impact]
                    scored ==
                        [Violations |-> checked.Violations,
                         RiskScore |-> calculateRiskScore(checked)]
                    status == determineApprovalStatus(scored)
                IN  [panic |-> FALSE,
                     Violations |-> checked.Violations,
                     RiskScore |-> scored.RiskScore,
                     Approved |-> status.approved,
                     RequiresReview |-> status.requiresReview]

----------------------------------------------------------------------------
(* RiskEngineService: the requests *)

MaxEngineAlerts == 4

NoTx == [Quantity |-> 0, Price |-> 0, StopLoss |-> 0]

NoThresholds == [portfolio_id |-> "none"]

NoAnalysis == [panic |-> FALSE]

IdleRequest ==
    [pc |-> "idle", kind |-> "none", portfolio_id |-> "none", tx |-> NoTx,
     thresholds |-> NoThresholds, analysis |-> NoAnalysis]

IdleApproval ==
    [phase |-> "idle", Violations |-> <<>>, RiskScore |-> Rat(0, 1),
     approved |-> FALSE, requiresReview |-> FALSE]

IdlePass == [state |-> "idle", remaining |-> {}, checked |-> {}, panicked |-> "none"]

\* no RiskService call under way
IdleService == [pc |-> "idle"]

\* no calculator call under way
IdleCalc == [fn |-> "none"]

\* the users, transactions and websocket clients of the model
Registrants == {"g1", "g2"}

Emails == {"a@example.com", "b@example.com"}

Clients == {"c1", "c2"}

\* no Register call under way
IdleRegistration ==
    [pc |-> "idle", email |-> "none", err |-> FALSE, status |-> 0, existed |-> FALSE]

\* an empty users table
NoUsers == [users |-> <<>>, reg |-> [g \in Registrants |-> IdleRegistration]]

\* no transaction in the last 24 hours
NoTransactions == [p \in Portfolios |-> [rows |-> <<>>, more |-> 0, large |-> 0]]

\* NewHub: no client, Run at its select; every connection still to come
NewHub ==
    [clients |-> {},
     send |-> [c \in Clients |-> [len |-> 0, closed |-> FALSE]],
     conn |-> [c \in Clients |-> "none"],
     run |-> [pc |-> "select", client |-> "none", todo |-> {}],
     caller |-> [pc |-> "idle", client |-> "none", todo |-> {}],
     panic |-> "none"]

\* nothing published or recorded yet, no signal, no call under way
ServicesAtRest ==
    /\ risk_updates = {}
    /\ quit = FALSE
    /\ auth = NoUsers
    /\ hub = NewHub
    /\ risk_metrics = <<>>
    /\ risk_history = <<>>
    /\ svc = IdleService
    /\ calc = IdleCalc

\* requests between their first query and their last insert
Busy == Cardinality({r \in Requests : eval[r].pc \in {"create", "evaluate"}})

\* the rows of WHERE portfolio_id = ?
ThresholdsOf(portfolioID) ==
    {i \in DOMAIN risk_thresholds : risk_thresholds[i].portfolio_id = portfolioID}

\* First(&portfolio, id), then the query of getOrCreateThresholds: an unknown
\* portfolio ends the request with an error, a found row is used, and on
\* gorm.ErrRecordNotFound the request goes on to create the defaults
LoadPortfolioAndThresholds(r, kind, portfolioID, tx) ==
    /\ eval[r].pc = "idle"
    /\ Len(alerts) + 2 * (Busy + 1) <= MaxEngineAlerts
    /\ LET request == [IdleRequest EXCEPT !.kind = kind,
                                          !.portfolio_id = portfolioID,
                                          !.tx = tx]
       IN  IF portfolioID \notin Portfolios
              THEN eval' = [eval EXCEPT ![r] = [request EXCEPT !.pc = "failed"]]
              ELSE IF ThresholdsOf(portfolioID) /= {}
                      THEN eval' = [eval EXCEPT ![r] =
                               [request EXCEPT
                                   !.pc = "evaluate",
                                   !.thresholds =
                                       risk_thresholds[CHOOSE i \in ThresholdsOf(portfolioID) :
                                           \A j \in ThresholdsOf(portfolioID) : i <= j]]]
                      ELSE eval' = [eval EXCEPT ![r] = [request EXCEPT !.pc = "create"]]
    /\ UNCHANGED <<alertVars, portfolio_tbl, risk_thresholds, approval, pass>>
    /\ UNCHANGED <<risk_updates, serviceVars>>

\* EvaluateTransaction, lines 74 to 80
BeginEvaluateTransaction(r, portfolioID, tx) ==
    LoadPortfolioAndThresholds(r, "trade", portfolioID, tx)

\* MonitorPortfolioRisk, lines 457 to 463
BeginMonitorPortfolioRisk(r, portfolioID) ==
    LoadPortfolioAndThresholds(r, "monitor", portfolioID, NoTx)

\* getOrCreateThresholds after gorm.ErrRecordNotFound: db.Create of the
\* defaults, whose error ends the request
CreateThresholds(r) ==
    /\ eval[r].pc = "create"
    /\ \/ /\ risk_thresholds' =
                Append(risk_thresholds, GetDefaultThresholds(eval[r].portfolio_id))
          /\ eval' = [eval EXCEPT ![r].pc = "evaluate",
                                  ![r].thresholds =
                                      GetDefaultThresholds(eval[r].portfolio_id)]
       \/ /\ eval' = [eval EXCEPT ![r].pc = "failed"]
          /\ UNCHANGED risk_thresholds
    /\ UNCHANGED <<alertVars, portfolio_tbl, approval, pass>>
    /\ UNCHANGED <<risk_updates, serviceVars>>

\* EvaluateTransaction from line 85: the checks, the score, the status, the
\* update of the transaction and the alerts; a panic unwinds the request
FinishEvaluateTransaction(r) ==
    /\ eval[r].pc = "evaluate"
    /\ eval[r].kind = "trade"
    /\ LET analysis == Analyse(eval[r].tx, portfolio_tbl[eval[r].portfolio_id],
                               eval[r].thresholds)
       IN  IF analysis.panic
              THEN /\ eval' = [eval EXCEPT ![r].pc = "panicked"]
                   /\ UNCHANGED alerts
              ELSE /\ eval' = [eval EXCEPT ![r].pc = "done", ![r].analysis = analysis]
                   /\ alerts' = alerts \o createRiskAlerts(eval[r].portfolio_id, analysis)
    /\ UNCHANGED <<now, gen, redisVars, portfolio_tbl, risk_thresholds, approval, pass>>
    /\ UNCHANGED <<risk_updates, serviceVars>>

\* the switch with > in place of >=
BreachSeverityAbove(currentValue, threshold) ==
    LET breachRatio == FloatDiv(currentValue, threshold)
    IN  IF RatGreaterThan(breachRatio, Rat(2, 1)) THEN "CRITICAL"
        ELSE IF RatGreaterThan(breachRatio, Rat(12, 10)) THEN "HIGH"
        ELSE "MEDIUM"

\* currentValue / threshold on float64, then the switch on breachRatio
BreachSeverity(currentValue, threshold) ==
    LET breachRatio == FloatDiv(currentValue, threshold)
    IN  IF FloatGeq(breachRatio, Rat(2, 1)) THEN "CRITICAL"
        ELSE IF FloatGeq(breachRatio, Rat(12, 10)) THEN "HIGH"
        ELSE "MEDIUM"

\* AlertService.CreateRiskBreachAlert
CreateRiskBreachAlert(portfolioID, metricType, currentValue, threshold) ==
    EngineAlert(portfolioID, "RISK_BREACH", BreachSeverity(currentValue, threshold),
                metricType, IF metricType = "VAR" THEN "VAR_CALCULATOR"
                                                  ELSE "LIQUIDITY_CALCULATOR")

\* MonitorPortfolioRisk from line 468.  The VaR alert is inserted before the
\* liquidity calculation can panic.  CreateRiskBreachAlert returns the error
\* of db.Create, and both calls drop it: create_errors are the dropped
\* errors of a call that returned nil.
FinishMonitorPortfolioRisk(r) ==
    /\ eval[r].pc = "evaluate"
    /\ eval[r].kind = "monitor"
    /\ \E failing \in SUBSET {"VAR", "LIQUIDITY"} :
          LET portfolio == portfolio_tbl[eval[r].portfolio_id]
              thresholds == eval[r].thresholds
              varValue == CalculateVaR95(portfolio.Positions)
              varBreach == RatGreaterThan(varValue, thresholds.MaxVaR95)
              varAlert ==
                  IF varBreach /\ "VAR" \notin failing
                     THEN <<CreateRiskBreachAlert(eval[r].portfolio_id, "VAR", varValue,
                                                  thresholds.MaxVaR95)>>
                     ELSE <<>>
              liquidityResult ==
                  CalculateLiquidity(portfolio.Positions, portfolio.TotalValue)
          IN  IF liquidityResult.panic
                 THEN /\ eval' = [eval EXCEPT ![r].pc = "panicked"]
                      /\ alerts' = alerts \o varAlert
                      /\ UNCHANGED risk_updates
                 ELSE LET liquidityBreach ==
                              RatLessThan(liquidityResult.LiquidityRatio,
                                          thresholds.MinLiquidityRatio)
                          liquidityAlert ==
                              IF liquidityBreach /\ "LIQUIDITY" \notin failing
                                 THEN <<CreateRiskBreachAlert(
                                            eval[r].portfolio_id, "LIQUIDITY",
                                            liquidityResult.LiquidityRatio,
                                            thresholds.MinLiquidityRatio)>>
                                 ELSE <<>>
                      IN  /\ alerts' = alerts \o varAlert \o liquidityAlert
                          /\ risk_updates' = risk_updates \cup
                                {[portfolio_id |-> eval[r].portfolio_id,
                                  var |-> varValue,
                                  liquidity |-> liquidityResult.LiquidityRatio,
                                  timestamp |-> now]}
                          /\ eval' = [eval EXCEPT
                                ![r].pc = "done",
                                ![r].analysis =
                                    [panic |-> FALSE,
                                     risk_updates |-> TRUE,
                                     create_errors |->
                                         (IF varBreach THEN failing \cap {"VAR"} ELSE {})
                                         \cup (IF liquidityBreach
                                                  THEN failing \cap {"LIQUIDITY"}
                                                  ELSE {})]]
    /\ UNCHANGED <<now, gen, redisVars, portfolio_tbl, risk_thresholds, approval, pass>>
    /\ UNCHANGED serviceVars

\* the caller has the analysis, the error or the panic; the request slot is free
EndRequest(r) ==
    /\ eval[r].pc \in {"done", "failed", "panicked"}
    /\ eval' = [eval EXCEPT ![r] = IdleRequest]
    /\ UNCHANGED <<alertVars, portfolio_tbl, risk_thresholds, approval, pass>>
    /\ UNCHANGED <<risk_updates, serviceVars>>

----------------------------------------------------------------------------
(* determineApprovalStatus on its own *)

MaxViolations == 3

Severities == {"WARNING", "VIOLATION", "CRITICAL"}

\* the violation lists of up to MaxViolations entries
ViolationLists ==
    UNION {[1..n -> {Violation("ANY", s) : s \in Severities}] : n \in 0..MaxViolations}

\* risk scores on both sides of the two limits, 30 and 70
ScoreSamples ==
    {Rat(0, 1), Rat(29, 1), Rat(299, 10), Rat(30, 1), Rat(50, 1), Rat(70, 1),
     Rat(701, 10), Rat(100, 1)}

\* analysis.Approved, analysis.RequiresReview = res.determineApprovalStatus(analysis)
DetermineApprovalStatus ==
    /\ approval.phase = "analysed"
    /\ LET status == determineApprovalStatus(approval)
       IN  approval' = [approval EXCEPT !.phase = "decided",
                                        !.approved = status.approved,
                                        !.requiresReview = status.requiresReview]
    /\ UNCHANGED <<alertVars, portfolio_tbl, risk_thresholds, eval, pass>>
    /\ UNCHANGED <<risk_updates, serviceVars>>

\* the caller takes the decision
TakeDecision ==
    /\ approval.phase = "decided"
    /\ approval' = [approval EXCEPT !.phase = "taken"]
    /\ UNCHANGED <<alertVars, portfolio_tbl, risk_thresholds, eval, pass>>
    /\ UNCHANGED <<risk_updates, serviceVars>>

----------------------------------------------------------------------------
(* AlertGeneratorService: the monitor pass over all portfolios *)

MaxPassAlerts == 6

\* alertExists against a table that already holds the rows of this check
ExistsIn(tbl, portfolioID, alertType, within) ==
    \E i \in DOMAIN tbl :
        /\ tbl[i].portfolio_id = portfolioID
        /\ tbl[i].alert_type = alertType
        /\ tbl[i].status = "ACTIVE"
        /\ tbl[i].created_at > now - within

RECURSIVE RaiseAll(_, _, _, _)
\* the generators of one checkPortfolioRisks call, one after the other: each
\* returns when alertExists, and inserts unless its db.Create fails
RaiseAll(portfolioID, sources, failing, tbl) ==
    IF sources = <<>>
       THEN tbl
       ELSE IF ExistsIn(tbl, portfolioID, AlertTypeOf(Head(sources)),
                        WindowOf(Head(sources)))
                  \/ Head(sources) \in failing
               THEN RaiseAll(portfolioID, Tail(sources), failing, tbl)
               ELSE RaiseAll(portfolioID, Tail(sources), failing,
                             Append(tbl, NewAlert(portfolioID, Head(sources))))

\* RiskEngineService.CalculateVaR: the status from VaR against 8% of the
\* value, then VaRPercentage = varValue.Div(portfolio.TotalValue), which
\* panics for a portfolio worth nothing
EngineCalculateVaR(portfolio, loadFails) ==
    IF loadFails
       THEN [panic |-> FALSE, err |-> TRUE]
       ELSE IF portfolio.TotalValue = 0
               THEN [panic |-> TRUE]
               ELSE LET varValue == CalculateVaR95(portfolio.Positions)
                        threshold == Rat(8 * portfolio.TotalValue, 100)
                    IN  [panic |-> FALSE, err |-> FALSE,
                         Status |->
                             IF RatGreaterThan(varValue, threshold) THEN "CRITICAL"
                             ELSE IF RatGreaterThan(varValue,
                                                    RatMul(threshold, Rat(75, 100)))
                                     THEN "WARNING"
                                     ELSE "SAFE"]

\* RiskEngineService.CalculateLiquidityRisk
EngineCalculateLiquidityRisk(portfolio, loadFails) ==
    IF loadFails
       THEN [panic |-> FALSE, err |-> TRUE]
       ELSE LET calcResult == CalculateLiquidity(portfolio.Positions, portfolio.TotalValue)
            IN  IF calcResult.panic
                   THEN [panic |-> TRUE]
                   ELSE [panic |-> FALSE, err |-> FALSE,
                         RiskAssessment |->
                             IF RatLessThan(calcResult.LiquidityRatio, Rat(3, 10))
                                THEN "HIGH_RISK"
                                ELSE IF RatLessThan(calcResult.LiquidityRatio, Rat(7, 10))
                                        THEN "MEDIUM_RISK"
                                        ELSE "LOW_RISK"]

\* RiskEngineService.CheckPositionLimits: MarketValue.Div(TotalValue) * 100
\* for every position, which panics for a portfolio worth nothing
EngineCheckPositionLimits(portfolio, maxLimitPercent, loadFails) ==
    IF loadFails
       THEN [panic |-> FALSE, err |-> TRUE]
       ELSE IF portfolio.Positions /= <<>> /\ portfolio.TotalValue = 0
               THEN [panic |-> TRUE]
               ELSE [panic |-> FALSE, err |-> FALSE,
                     Violations |->
                         SelectSeq(portfolio.Positions,
                                   LAMBDA mv : 100 * mv > maxLimitPercent * portfolio.TotalValue)]

\* checkPortfolioRisks: the three calculations, each followed by its
\* generator when err == nil and the result asks for one, then the AML and
\* velocity checks.  The result is the alerts table afterwards, or the table
\* at the point where a calculation panicked.
checkPortfolioRisks(portfolioID, loadFails, failing, large, velocity) ==
    LET portfolio == portfolio_tbl[portfolioID]
        varResult == EngineCalculateVaR(portfolio, "var" \in loadFails)
        liquidityResult == EngineCalculateLiquidityRisk(portfolio, "liquidity" \in loadFails)
        positionResult == EngineCheckPositionLimits(portfolio, 25, "position" \in loadFails)
        varAlert ==
            IF ~varResult.panic /\ ~varResult.err
                  /\ varResult.Status \in {"WARNING", "CRITICAL"}
               THEN <<"VAR_CALCULATOR">> ELSE <<>>
        liquidityAlert ==
            IF ~liquidityResult.panic /\ ~liquidityResult.err
                  /\ liquidityResult.RiskAssessment \in {"MEDIUM_RISK", "HIGH_RISK"}
               THEN <<"LIQUIDITY_CALCULATOR">> ELSE <<>>
        positionAlert ==
            IF ~positionResult.panic /\ ~positionResult.err
                  /\ Len(positionResult.Violations) > 0
               THEN <<"POSITION_LIMIT_CHECKER">> ELSE <<>>
        amlAlerts ==
            (IF large THEN <<"AML_CHECKER">> ELSE <<>>)
            \o (IF velocity THEN <<"VELOCITY_CHECKER">> ELSE <<>>)
    IN  IF varResult.panic
           THEN [panic |-> TRUE, alerts |-> alerts]
           ELSE IF liquidityResult.panic
                   THEN [panic |-> TRUE,
                         alerts |-> RaiseAll(portfolioID, varAlert, failing, alerts)]
                   ELSE IF positionResult.panic
                           THEN [panic |-> TRUE,
                                 alerts |-> RaiseAll(portfolioID,
                                                     varAlert \o liquidityAlert,
                                                     failing, alerts)]
                           ELSE [panic |-> FALSE,
                                 alerts |-> RaiseAll(portfolioID,
                                                     varAlert \o liquidityAlert
                                                     \o positionAlert \o amlAlerts,
                                                     failing, alerts)]

\* checkAllPortfoliosForRiskAlerts: db.Find(&portfolios); on its error the
\* pass returns at once
StartPass ==
    /\ pass.state = "idle"
    /\ Len(alerts) + 3 * Cardinality(Portfolios) <= MaxPassAlerts
    /\ \/ pass' = [IdlePass EXCEPT !.state = "running", !.remaining = Portfolios]
       \/ pass' = [IdlePass EXCEPT !.state = "done"]
    /\ UNCHANGED <<alertVars, portfolio_tbl, risk_thresholds, eval, approval>>
    /\ UNCHANGED <<risk_updates, serviceVars>>

\* one turn of the loop of checkAllPortfoliosForRiskAlerts.  Nothing
\* recovers a panic of checkPortfolioRisks: it ends the pass, and with it the
\* goroutine of MonitorPortfolioRisks.
CheckPortfolio(portfolioID) ==
    /\ pass.state = "running"
    /\ portfolioID \in pass.remaining
    /\ \E loadFails \in SUBSET {"var", "liquidity", "position"},
          failing \in SUBSET {"LIQUIDITY_CALCULATOR", "AML_CHECKER"},
          large \in BOOLEAN, velocity \in BOOLEAN :
          LET result == checkPortfolioRisks(portfolioID, loadFails, failing,
                                            large, velocity)
              stored == (Len(alerts) + 1)..Len(result.alerts)
          IN  /\ alerts' = result.alerts
              /\ alert_cache' = alert_cache \cup stored
              /\ active_alerts' = active_alerts \cup stored
              /\ alerts_channel' = alerts_channel \cup stored
              /\ pass' =
                    IF result.panic
                       THEN [pass EXCEPT !.state = "crashed",
                                         !.remaining = @ \ {portfolioID},
                                         !.panicked = portfolioID]
                       ELSE [pass EXCEPT !.state = IF pass.remaining = {portfolioID}
                                                      THEN "done" ELSE "running",
                                         !.remaining = @ \ {portfolioID},
                                         !.checked = @ \cup {portfolioID}]
    /\ UNCHANGED <<now, gen, portfolio_tbl, risk_thresholds, eval, approval>>
    /\ UNCHANGED <<risk_updates, serviceVars>>

\* the pass has returned; the ticker of MonitorPortfolioRisks starts the next
EndPass ==
    /\ pass.state = "done"
    /\ pass' = IdlePass
    /\ UNCHANGED <<alertVars, portfolio_tbl, risk_thresholds, eval, approval>>
    /\ UNCHANGED <<risk_updates, serviceVars>>

----------------------------------------------------------------------------
(* calculator.LiquidityCalculator with a market data provider               *)
(* (risk/calculator/liquidity.go).  float64 values are fractions; x/0 is    *)
(* +Inf or -Inf and 0/0 is NaN.                                              *)

\* the largest k with k * k <= n
ISqrt(n) == CHOOSE k \in 0..n : k * k <= n /\ (k + 1) * (k + 1) > n

\* math.Sqrt on the volume ratios of the model, which are squares of fractions
Sqrt(r) == Rat(ISqrt(r.num), ISqrt(r.den))

\* assessMarketDepth: the notional of the top five bid and ask levels against
\* the position value; the ask loop takes the level count the bid side left
RECURSIVE LevelsValue(_, _)
LevelsValue(levels, count) ==
    IF count = 0 \/ levels = <<>>
       THEN 0
       ELSE Head(levels).Price * Head(levels).Quantity
            + LevelsValue(Tail(levels), count - 1)

assessMarketDepth(depth, positionValue) ==
    LET bidCount == IF Len(depth.BidLevels) < 5 THEN Len(depth.BidLevels) ELSE 5
        askCount == IF Len(depth.AskLevels) < bidCount THEN Len(depth.AskLevels)
                                                       ELSE bidCount
        totalBidValue == LevelsValue(depth.BidLevels, bidCount)
        totalAskValue == LevelsValue(depth.AskLevels, askCount)
        avgDepth == Rat(totalBidValue + totalAskValue, 2)
    IN  IF RatGreaterThan(avgDepth, Rat(positionValue * 2, 1)) THEN Rat(1, 1)
        ELSE IF RatGreaterThan(avgDepth, Rat(positionValue, 1)) THEN Rat(75, 100)
        ELSE IF RatGreaterThan(avgDepth, Rat(positionValue, 2)) THEN Rat(50, 100)
        ELSE IF RatGreaterThan(avgDepth, Rat(positionValue, 4)) THEN Rat(25, 100)
        ELSE Rat(0, 1)

\* calculateLiquidityScore; marketCap is in millions
calculateLiquidityScore(avgVolume, spread, marketCap, positionValue, depth) ==
    LET volumeRatio == FloatDiv(Rat(positionValue, 1), Rat(avgVolume, 1))
        volumePenalty ==
            IF RatLessThan(volumeRatio, Rat(1, 100)) THEN 0
            ELSE IF RatLessThan(volumeRatio, Rat(1, 10)) THEN 5
            ELSE IF RatLessThan(volumeRatio, Rat(5, 10)) THEN 15
            ELSE 25
        spreadPenalty ==
            IF RatLessThan(spread, Rat(1, 1000)) THEN 0
            ELSE IF RatLessThan(spread, Rat(5, 1000)) THEN 10
            ELSE IF RatLessThan(spread, Rat(1, 100)) THEN 20
            ELSE 25
        capPenalty ==
            IF marketCap > 10000 THEN 0
            ELSE IF marketCap > 2000 THEN 10
            ELSE IF marketCap > 200 THEN 20
            ELSE 25
        depthPenalty ==
            IF ~depth.isNil
               THEN RatSub(Rat(25, 1),
                           RatMul(assessMarketDepth(depth, positionValue), Rat(25, 1)))
               ELSE Rat(25, 1)
        score == RatSub(Rat(100 - volumePenalty - spreadPenalty - capPenalty, 1),
                        depthPenalty)
    IN  FloatMax(Rat(0, 1), score)

\* a variant that takes the asset type into account only for instruments
\* that are cash or as good as cash
classifyLiquidityByScore(score, daysToLiquidate, assetType) ==
    IF assetType \in {"GOVERNMENT_BOND", "CASH", "MONEY_MARKET"}
       THEN "HIGHLY_LIQUID"
       ELSE IF ~RatLessThan(score, Rat(50, 1))
               THEN "SEMI_LIQUID"
               ELSE "ILLIQUID"

\* classifyLiquidity
classifyLiquidity(score, daysToLiquidate, assetType) ==
    CASE assetType \in {"GOVERNMENT_BOND", "CASH", "MONEY_MARKET"} -> "HIGHLY_LIQUID"
      [] assetType = "CORPORATE_BOND" ->
            IF RatGreaterThan(score, Rat(70, 1)) THEN "LIQUID" ELSE "SEMI_LIQUID"
      [] assetType = "CRYPTO" ->
            IF RatGreaterThan(score, Rat(80, 1)) THEN "LIQUID"
            ELSE IF RatGreaterThan(score, Rat(50, 1)) THEN "SEMI_LIQUID"
            ELSE "ILLIQUID"
      [] OTHER ->
            IF ~RatLessThan(score, Rat(85, 1)) /\ ~RatGreaterThan(daysToLiquidate, Rat(1, 1))
               THEN "HIGHLY_LIQUID"
            ELSE IF ~RatLessThan(score, Rat(70, 1))
                       /\ ~RatGreaterThan(daysToLiquidate, Rat(3, 1))
               THEN "LIQUID"
            ELSE IF ~RatLessThan(score, Rat(50, 1))
                       /\ ~RatGreaterThan(daysToLiquidate, Rat(7, 1))
               THEN "SEMI_LIQUID"
            ELSE "ILLIQUID"

\* calculateDaysToLiquidate
calculateDaysToLiquidate(quantity, avgDailyVolume, participationRate) ==
    IF avgDailyVolume = 0
       THEN Rat(999, 1)
       ELSE FloatDiv(Rat(quantity, 1), RatMul(Rat(avgDailyVolume, 1), participationRate))

\* calculateMarketImpact
calculateMarketImpact(quantity, avgDailyVolume, spread) ==
    IF avgDailyVolume = 0
       THEN Rat(5, 10)
       ELSE LET volumeRatio == Rat(quantity, avgDailyVolume)
                impactFromSize == RatMul(Rat(1, 10), Sqrt(volumeRatio))
            IN  FloatMin(RatAdd(impactFromSize, RatMul(spread, Rat(1, 2))), Rat(5, 10))

\* the walk through the bid levels: the value filled and the quantity left
RECURSIVE FillFromBook(_, _)
FillFromBook(levels, remainingQty) ==
    IF levels = <<>> \/ remainingQty <= 0
       THEN [value |-> 0, remaining |-> remainingQty]
       ELSE LET fillQty == IF remainingQty < Head(levels).Quantity
                              THEN remainingQty ELSE Head(levels).Quantity
                rest == FillFromBook(Tail(levels), remainingQty - fillQty)
            IN  [value |-> fillQty * Head(levels).Price + rest.value,
                 remaining |-> rest.remaining]

\* calculateImmediateLiquidationValue
calculateImmediateLiquidationValue(position, depth) ==
    IF depth.isNil
       THEN Rat(position.MarketValue * 95, 100)
       ELSE IF Len(depth.BidLevels) = 0
               THEN Rat(position.MarketValue * 95, 100)
               ELSE LET filled == FillFromBook(depth.BidLevels, position.Quantity)
                        lastPrice == depth.BidLevels[Len(depth.BidLevels)].Price
                    IN  IF filled.remaining > 0
                           THEN RatAdd(Rat(filled.value, 1),
                                       Rat(filled.remaining * lastPrice * 9, 10))
                           ELSE Rat(filled.value, 1)

\* analyzePositionLiquidity
analyzePositionLiquidity(provider, position) ==
    LET data == provider[position.Symbol]
        days == calculateDaysToLiquidate(position.Quantity, data.AverageDailyVolume,
                                         Rat(1, 10))
        impact == calculateMarketImpact(position.Quantity, data.AverageDailyVolume,
                                        data.BidAskSpread)
        score == calculateLiquidityScore(data.AverageDailyVolume, data.BidAskSpread,
                                         data.MarketCap, position.MarketValue,
                                         data.MarketDepth)
    IN  [Symbol |-> position.Symbol,
         AssetType |-> position.AssetType,
         Quantity |-> position.Quantity,
         MarketValue |-> position.MarketValue,
         AverageDailyVolume |-> data.AverageDailyVolume,
         DaysToLiquidate |-> days,
         MarketImpact |-> impact,
         BidAskSpread |-> data.BidAskSpread,
         SpreadCost |-> RatMul(Rat(position.MarketValue, 1), data.BidAskSpread),
         LiquidityScore |-> score,
         LiquidityClass |-> classifyLiquidity(score, days, position.AssetType),
         ImmediateLiquidationValue |->
             calculateImmediateLiquidationValue(position, data.MarketDepth),
         OrdedlyLiquidationValue |->
             RatMul(Rat(position.MarketValue, 1), RatSub(Rat(1, 1), impact))]

\* the liquid and illiquid value a position adds, by its liquidity class
LiquidShare(posLiquidity) ==
    CASE posLiquidity.LiquidityClass = "HIGHLY_LIQUID" -> Rat(1, 1)
      [] posLiquidity.LiquidityClass = "LIQUID" -> Rat(75, 100)
      [] posLiquidity.LiquidityClass = "SEMI_LIQUID" -> Rat(25, 100)
      [] OTHER -> Rat(0, 1)

IlliquidShare(posLiquidity) ==
    CASE posLiquidity.LiquidityClass = "SEMI_LIQUID" -> Rat(75, 100)
      [] posLiquidity.LiquidityClass = "ILLIQUID" -> Rat(1, 1)
      [] OTHER -> Rat(0, 1)

\* the three sums of the loop over the positions
RECURSIVE AggregateLiquidity(_, _)
AggregateLiquidity(analysed, portfolioValue) ==
    IF analysed = <<>>
       THEN [totalLiquidValue |-> Rat(0, 1), totalIlliquidValue |-> Rat(0, 1),
             weightedLiquidityScore |-> Rat(0, 1)]
       ELSE LET n == Len(analysed)
                before == AggregateLiquidity(SubSeq(analysed, 1, n - 1), portfolioValue)
                pos == analysed[n]
                mv == Rat(pos.MarketValue, 1)
            IN  [totalLiquidValue |->
                     RatAdd(before.totalLiquidValue, RatMul(mv, LiquidShare(pos))),
                 totalIlliquidValue |->
                     RatAdd(before.totalIlliquidValue, RatMul(mv, IlliquidShare(pos))),
                 weightedLiquidityScore |->
                     FloatAdd(before.weightedLiquidityScore,
                              FloatMul(pos.LiquidityScore,
                                       FloatDiv(mv, Rat(portfolioValue, 1))))]

\* calculateLiquidationTime: the longest liquidation among the positions
RECURSIVE calculateLiquidationTime(_, _, _)
calculateLiquidationTime(provider, positions, participationRate) ==
    IF positions = <<>>
       THEN Rat(0, 1)
       ELSE LET maxDays == calculateLiquidationTime(provider, Tail(positions),
                                                    participationRate)
                days == calculateDaysToLiquidate(
                            Head(positions).Quantity,
                            provider[Head(positions).Symbol].AverageDailyVolume,
                            participationRate)
            IN  IF RatGreaterThan(days, maxDays) THEN days ELSE maxDays

\* calculateLiquidityAdjustedVaR
calculateLiquidityAdjustedVaR(liquidityRatio, portfolioValue) ==
    LET liquidityFactor ==
            IF RatLessThan(liquidityRatio, Rat(3, 10)) THEN Rat(150, 100)
            ELSE IF RatLessThan(liquidityRatio, Rat(5, 10)) THEN Rat(130, 100)
            ELSE IF RatLessThan(liquidityRatio, Rat(7, 10)) THEN Rat(115, 100)
            ELSE Rat(1, 1)
    IN  RatMul(Rat(portfolioValue * 5, 100), liquidityFactor)

\* assessLiquidityHealth
assessLiquidityHealth(liquidityRatio, normalMarketDays) ==
    IF FloatGeq(liquidityRatio, Rat(7, 10)) /\ ~RatGreaterThan(normalMarketDays, Rat(3, 1))
       THEN "HEALTHY"
    ELSE IF FloatGeq(liquidityRatio, Rat(5, 10))
               /\ ~RatGreaterThan(normalMarketDays, Rat(7, 1))
       THEN "ADEQUATE"
    ELSE IF FloatGeq(liquidityRatio, Rat(3, 10))
               /\ ~RatGreaterThan(normalMarketDays, Rat(14, 1))
       THEN "CONCERNING"
    ELSE "CRITICAL"

\* checkLiquidityAlerts: the type and severity of each alert, in order
checkLiquidityAlerts(liquidityRatio, normalMarketDays, analysed, portfolioValue) ==
    LET ratioAlerts ==
            IF RatLessThan(liquidityRatio, Rat(3, 10))
               THEN <<[Type |-> "LOW_LIQUIDITY_RATIO", Severity |-> "CRITICAL"]>>
            ELSE IF RatLessThan(liquidityRatio, Rat(5, 10))
               THEN <<[Type |-> "LOW_LIQUIDITY_RATIO", Severity |-> "WARNING"]>>
            ELSE <<>>
        timeAlerts ==
            IF RatGreaterThan(normalMarketDays, Rat(10, 1))
               THEN <<[Type |-> "EXTENDED_LIQUIDATION_TIME", Severity |-> "WARNING"]>>
               ELSE <<>>
        Concentrated(pos) ==
            /\ pos.LiquidityClass = "ILLIQUID"
            /\ RatGreaterThan(FloatDiv(Rat(pos.MarketValue, 1), Rat(portfolioValue, 1)),
                              Rat(1, 10))
        positionAlerts ==
            [i \in 1..Cardinality({j \in 1..Len(analysed) : Concentrated(analysed[j])}) |->
                [Type |-> "CONCENTRATED_ILLIQUID_POSITION", Severity |-> "WARNING"]]
    IN  ratioAlerts \o timeAlerts \o positionAlerts

\* LiquidityCalculator.CalculateLiquidity with the market data provider given
CalculateLiquidityWith(provider, positions, portfolioValue) ==
    LET analysed == [i \in 1..Len(positions) |->
                        analyzePositionLiquidity(provider, positions[i])]
        sums == AggregateLiquidity(analysed, portfolioValue)
        liquidityRatio == FloatDiv(sums.totalLiquidValue, Rat(portfolioValue, 1))
        normalMarketDays == calculateLiquidationTime(provider, positions, Rat(10, 100))
    IN  [PortfolioValue |-> portfolioValue,
         Positions |-> analysed,
         LiquidityRatio |-> liquidityRatio,
         IlliquidityRatio |-> FloatDiv(sums.totalIlliquidValue, Rat(portfolioValue, 1)),
         WeightedLiquidityScore |-> sums.weightedLiquidityScore,
         NormalMarketDays |-> normalMarketDays,
         StressedMarketDays |->
             calculateLiquidationTime(provider, positions, Rat(5, 100)),
         CrisisMarketDays |->
             calculateLiquidationTime(provider, positions, Rat(2, 100)),
         LiquidityAdjustedVaR |->
             calculateLiquidityAdjustedVaR(liquidityRatio, portfolioValue),
         LiquidityHealth |-> assessLiquidityHealth(liquidityRatio, normalMarketDays),
         Alerts |-> checkLiquidityAlerts(liquidityRatio, normalMarketDays, analysed,
                                         portfolioValue),
         err |-> "none"]

----------------------------------------------------------------------------
(* calculator.VaRCalculator (risk/calculator/var.go).  Returns and VaR      *)
(* values are fractions; priceHistory is a function from the symbols that   *)
(* have a history to their price series.                                    *)

\* the default portfolio value of the engine's calculator
DefaultPortfolioValue == 100000

\* the sum of a series of fractions
RECURSIVE RatSum(_)
RatSum(data) == IF data = <<>> THEN Rat(0, 1) ELSE RatAdd(Head(data), RatSum(Tail(data)))

\* sort.Float64s: the value at a position of the series in ascending order
RatSortedAt(series, index) ==
    CHOOSE x \in {series[i] : i \in DOMAIN series} :
        /\ Cardinality({i \in DOMAIN series : RatLessThan(series[i], x)}) <= index
        /\ Cardinality({i \in DOMAIN series : ~RatGreaterThan(series[i], x)}) > index

\* calculateReturns: the returns of one price series
calculateReturns(prices) ==
    IF Len(prices) < 2
       THEN <<>>
       ELSE [i \in 1..(Len(prices) - 1) |->
                IF prices[i] > 0 THEN Rat(prices[i + 1] - prices[i], prices[i])
                                 ELSE Rat(0, 1)]

\* the worth of the positions that have a history, at one day's prices
RECURSIVE ValueAtDay(_, _, _)
ValueAtDay(positions, priceHistory, day) ==
    IF positions = <<>>
       THEN 0
       ELSE (IF Head(positions).Symbol \in DOMAIN priceHistory
                THEN Head(positions).Quantity * priceHistory[Head(positions).Symbol][day]
                ELSE 0)
            + ValueAtDay(Tail(positions), priceHistory, day)

\* the shortest history among the symbols
MinLength(priceHistory) ==
    CHOOSE n \in {Len(priceHistory[sym]) : sym \in DOMAIN priceHistory} :
        \A sym \in DOMAIN priceHistory : n <= Len(priceHistory[sym])

\* calculatePortfolioReturns
calculatePortfolioReturns(positions, priceHistory) ==
    IF DOMAIN priceHistory = {}
       THEN <<>>
       ELSE IF MinLength(priceHistory) < 2
               THEN <<>>
               ELSE [i \in 1..(MinLength(priceHistory) - 1) |->
                        LET portfolioValueYesterday ==
                                ValueAtDay(positions, priceHistory, i)
                            portfolioValueToday ==
                                ValueAtDay(positions, priceHistory, i + 1)
                        IN  IF portfolioValueYesterday > 0
                               THEN Rat(portfolioValueToday - portfolioValueYesterday,
                                        portfolioValueYesterday)
                               ELSE Rat(0, 1)]

\* int((1 - confidence) * float64(n)), kept below n; confidence in percent
PercentileIndex(confidence, n) ==
    LET index == ((100 - confidence) * n) \div 100
    IN  IF index >= n THEN n - 1 ELSE index

\* historicalVaR: minus the return at the percentile, times the portfolio value
historicalVaR(returns, portfolioValue) ==
    IF Len(returns) = 0
       THEN [v95 |-> Rat(0, 1), v99 |-> Rat(0, 1)]
       ELSE LET at(c) == RatSortedAt(returns, PercentileIndex(c, Len(returns)))
            IN  [v95 |-> RatMul(Rat(-portfolioValue, 1), at(95)),
                 v99 |-> RatMul(Rat(-portfolioValue, 1), at(99))]

\* calculateMean
calculateMean(data) ==
    IF Len(data) = 0 THEN Rat(0, 1) ELSE RatMul(RatSum(data), Rat(1, Len(data)))

\* the sample variance of calculateStdDev
Variance(data, mean) ==
    IF Len(data) < 2
       THEN Rat(0, 1)
       ELSE RatMul(RatSum([i \in DOMAIN data |->
                              RatMul(RatSub(data[i], mean), RatSub(data[i], mean))]),
                   Rat(1, Len(data) - 1))

\* the series whose variance is the square of a fraction, on which
\* math.Sqrt is exact
HasExactStdDev(data) ==
    LET variance == Variance(data, calculateMean(data))
    IN  Sqrt(variance).num * Sqrt(variance).num = variance.num
        /\ Sqrt(variance).den * Sqrt(variance).den = variance.den

\* calculateStdDev
calculateStdDev(data, mean) == Sqrt(Variance(data, mean))

\* the z-scores of parametricVaR
ZScore95 == Rat(1645, 1000)

ZScore99 == Rat(2326, 1000)

\* parametricVaR
parametricVaR(returns, portfolioValue) ==
    IF Len(returns) = 0
       THEN [v95 |-> Rat(0, 1), v99 |-> Rat(0, 1)]
       ELSE LET mean == calculateMean(returns)
                stdDev == calculateStdDev(returns, mean)
                varReturn(z) == RatSub(mean, RatMul(z, stdDev))
            IN  [v95 |-> RatMul(Rat(-portfolioValue, 1), varReturn(ZScore95)),
                 v99 |-> RatMul(Rat(-portfolioValue, 1), varReturn(ZScore99))]

\* the symbols monteCarloVaR has statistics for: those with a return series
SymbolsWithStats(priceHistory) ==
    {sym \in DOMAIN priceHistory : Len(calculateReturns(priceHistory[sym])) > 0}

\* the draws z of generateRandomReturn, a standard normal value cut off by
\* u1 >= 1e-10: samples
NormalDraws == {-2, 0, 2}

\* one simulated portfolio return, given the draw for each symbol
RECURSIVE SimulatedSums(_, _, _)
SimulatedSums(positions, priceHistory, draw) ==
    IF positions = <<>>
       THEN [portfolioReturn |-> Rat(0, 1), totalValue |-> 0]
       ELSE LET n == Len(positions)
                before == SimulatedSums(SubSeq(positions, 1, n - 1), priceHistory, draw)
                position == positions[n]
            IN  IF position.Symbol \notin SymbolsWithStats(priceHistory)
                   THEN before
                   ELSE LET returns == calculateReturns(priceHistory[position.Symbol])
                            mean == calculateMean(returns)
                            stdDev == calculateStdDev(returns, mean)
                            randomReturn ==
                                RatAdd(mean, RatMul(Rat(draw[position.Symbol], 1), stdDev))
                            positionValue == position.Quantity * position.CurrentPrice
                        IN  [portfolioReturn |->
                                 RatAdd(before.portfolioReturn,
                                        RatMul(randomReturn, Rat(positionValue, 1))),
                             totalValue |-> before.totalValue + positionValue]

SimulatedReturn(positions, priceHistory, draw) ==
    LET sums == SimulatedSums(positions, priceHistory, draw)
    IN  IF sums.totalValue > 0
           THEN RatMul(sums.portfolioReturn, Rat(1, sums.totalValue))
           ELSE Rat(0, 1)

\* the simulated returns that can stand at the two percentile positions of
\* the sorted simulations: any two of the possible returns, in order
SimulatedPercentiles(positions, priceHistory) ==
    LET possible == {SimulatedReturn(positions, priceHistory, draw) :
                        draw \in [DOMAIN priceHistory -> NormalDraws]}
    IN  {sim \in [at95 : possible, at99 : possible] : ~RatGreaterThan(sim.at99, sim.at95)}

\* monteCarloVaR, given what the simulations left at the two percentiles
monteCarloVaR(positions, priceHistory, sim, portfolioValue) ==
    IF Len(positions) = 0 \/ DOMAIN priceHistory = {}
       THEN [v95 |-> Rat(0, 1), v99 |-> Rat(0, 1)]
       ELSE [v95 |-> RatMul(Rat(-portfolioValue, 1), sim.at95),
             v99 |-> RatMul(Rat(-portfolioValue, 1), sim.at99)]

\* calculateExpectedShortfall: the mean of the returns up to the percentile
calculateExpectedShortfall(returns, confidence, portfolioValue) ==
    IF Len(returns) = 0
       THEN Rat(0, 1)
       ELSE LET percentileIndex == PercentileIndex(confidence, Len(returns))
                worst == [i \in 1..(percentileIndex + 1) |-> RatSortedAt(returns, i - 1)]
            IN  RatMul(RatMul(RatSum(worst), Rat(-1, percentileIndex + 1)),
                       Rat(portfolioValue, 1))

\* the loop of calculateMaxDrawdown
RECURSIVE DrawdownAfter(_)
DrawdownAfter(returns) ==
    IF returns = <<>>
       THEN [cumulative |-> Rat(1, 1), peak |-> Rat(1, 1), maxDrawdown |-> Rat(0, 1)]
       ELSE LET n == Len(returns)
                before == DrawdownAfter(SubSeq(returns, 1, n - 1))
                cumulative == RatMul(before.cumulative, RatAdd(Rat(1, 1), returns[n]))
                peak == IF RatGreaterThan(cumulative, before.peak) THEN cumulative
                                                                   ELSE before.peak
                drawdown == FloatDiv(RatSub(peak, cumulative), peak)
            IN  [cumulative |-> cumulative, peak |-> peak,
                 maxDrawdown |-> IF RatGreaterThan(drawdown, before.maxDrawdown)
                                    THEN drawdown ELSE before.maxDrawdown]

\* calculateMaxDrawdown
calculateMaxDrawdown(returns, portfolioValue) ==
    IF Len(returns) = 0
       THEN Rat(0, 1)
       ELSE RatMul(DrawdownAfter(returns).maxDrawdown, Rat(portfolioValue, 1))

\* VaRCalculator.CalculateVaR, given what the simulations left at the two
\* percentiles; the error it returns is always nil
VaRCalculator_CalculateVaR(positions, priceHistory, timeHorizon, sim, portfolioValue) ==
    LET portfolioReturns == calculatePortfolioReturns(positions, priceHistory)
        historical == historicalVaR(portfolioReturns, portfolioValue)
        parametric == parametricVaR(portfolioReturns, portfolioValue)
        monteCarlo == monteCarloVaR(positions, priceHistory, sim, portfolioValue)
    IN  [TimeHorizon |-> timeHorizon,
         VaR95 |-> RatMul(RatAdd(RatAdd(historical.v95, parametric.v95), monteCarlo.v95),
                          Rat(1, 3)),
         VaR99 |-> RatMul(RatAdd(RatAdd(historical.v99, parametric.v99), monteCarlo.v99),
                          Rat(1, 3)),
         HistoricalVaR95 |-> historical.v95,
         HistoricalVaR99 |-> historical.v99,
         ParametricVaR95 |-> parametric.v95,
         ParametricVaR99 |-> parametric.v99,
         MonteCarloVaR95 |-> monteCarlo.v95,
         MonteCarloVaR99 |-> monteCarlo.v99,
         ExpectedShortfall95 |->
             calculateExpectedShortfall(portfolioReturns, 95, portfolioValue),
         ExpectedShortfall99 |->
             calculateExpectedShortfall(portfolioReturns, 99, portfolioValue),
         MaxDrawdown |-> calculateMaxDrawdown(portfolioReturns, portfolioValue),
         err |-> "none"]

----------------------------------------------------------------------------
(* RiskService: CalculatePortfolioVAR and CalculatePortfolioLiquidity, with *)
(* the calculators of NewRiskService                                        *)

MaxMetrics == 2

\* GenerateMockReturns(252): the number of daily returns, here a bound
MockDays == 2

\* rand.Float64() - 0.5) * 0.1 lies in [-0.05, 0.05): samples, in hundredths
MockReturnValues == {-4, 0, 3}

MockReturnSeries == [1..MockDays -> MockReturnValues]

\* Position.Liquidity
LiquidityTags == {"HIGH", "MEDIUM", "LOW"}

\* the element the ascending sort leaves at place index + 1: the one with at
\* most index smaller elements and more than index elements not above it
SortedAt(series, index) ==
    CHOOSE x \in {series[i] : i \in DOMAIN series} :
        /\ Cardinality({i \in DOMAIN series : series[i] < x}) <= index
        /\ Cardinality({i \in DOMAIN series : series[i] <= x}) > index

\* VARCalculator.CalculateVAR with ConfidenceLevel 0.95 and TimeHorizon 1:
\* the return at index floor(n * 0.05) of the sorted returns (in hundredths),
\* times sqrt(1), its absolute value times the portfolio value
CalculateVAR(portfolio, historicalReturns) ==
    IF Len(historicalReturns) = 0
       THEN [err |-> TRUE]
       ELSE LET n == Len(historicalReturns)
                floor == (n * 5) \div 100
                index == IF floor >= n THEN n - 1 ELSE floor
                varValue == SortedAt(historicalReturns, index)
            IN  [err |-> FALSE,
                 value |-> Rat(portfolio.TotalValue * Abs(varValue), 100)]

RECURSIVE SumOf(_)
SumOf(values) == IF values = <<>> THEN 0 ELSE Head(values) + SumOf(Tail(values))

\* LiquidityCalculator.CalculateLiquidityRatio: the market value tagged HIGH
\* over the total market value, 0 when the total is zero
CalculateLiquidityRatio(positions, liquidity) ==
    LET totalValue == SumOf(positions)
        high == SumOf([i \in DOMAIN positions |->
                          IF liquidity[i] = "HIGH" THEN positions[i] ELSE 0])
    IN  IF totalValue = 0 THEN Rat(0, 1) ELSE Rat(high, totalValue)

\* NewLiquidityCalculator
HighLiquidityThreshold == Rat(7, 10)

MediumLiquidityThreshold == Rat(2, 10)

\* LiquidityCalculator.AssessLiquidityRisk
AssessLiquidityRisk(liquidityRatio) ==
    IF ~RatLessThan(liquidityRatio, HighLiquidityThreshold) THEN "LOW_RISK"
    ELSE IF ~RatLessThan(liquidityRatio, MediumLiquidityThreshold) THEN "MEDIUM_RISK"
    ELSE "HIGH_RISK"

NoMetric == [portfolio_id |-> "none"]

\* what a RiskService call hands back: (nil, err) or (riskMetric, nil), and
\* whether it printed the warning about the history row
ServiceError(op, err) ==
    [pc |-> "returned", op |-> op, err |-> err, metric |-> NoMetric, warning |-> FALSE]

\* a variant that treats the history row like the metric row
saveMetricAndHistoryStrict(op, riskMetric, metricFails, historyFails) ==
    IF metricFails
       THEN /\ svc' = ServiceError(op, "failed to save risk metric")
            /\ UNCHANGED <<risk_metrics, risk_history>>
       ELSE /\ risk_metrics' = Append(risk_metrics, riskMetric)
            /\ IF historyFails
                  THEN /\ svc' = ServiceError(op, "failed to save risk history")
                       /\ UNCHANGED risk_history
                  ELSE /\ svc' = [pc |-> "returned", op |-> op, err |-> "none",
                                  metric |-> riskMetric, warning |-> FALSE]
                       /\ risk_history' = Append(risk_history,
                              [portfolio_id |-> riskMetric.portfolio_id,
                               metric_type |-> riskMetric.metric_type,
                               value |-> riskMetric.value,
                               recorded_at |-> now])

\* db.Create(riskMetric), whose error is returned, then db.Create(riskHistory),
\* whose error is printed, then return riskMetric, nil
saveMetricAndHistory(op, riskMetric, metricFails, historyFails) ==
    IF metricFails
       THEN /\ svc' = ServiceError(op, "failed to save risk metric")
            /\ UNCHANGED <<risk_metrics, risk_history>>
       ELSE /\ risk_metrics' = Append(risk_metrics, riskMetric)
            /\ svc' = [pc |-> "returned", op |-> op, err |-> "none",
                       metric |-> riskMetric, warning |-> historyFails]
            /\ IF historyFails
                  THEN UNCHANGED risk_history
                  ELSE risk_history' = Append(risk_history,
                           [portfolio_id |-> riskMetric.portfolio_id,
                            metric_type |-> riskMetric.metric_type,
                            value |-> riskMetric.value,
                            recorded_at |-> now])

\* RiskService.CalculatePortfolioVAR
CalculatePortfolioVAR(portfolioID) ==
    /\ svc.pc = "idle"
    /\ Len(risk_metrics) < MaxMetrics
    /\ \E historicalReturns \in MockReturnSeries,
          metricFails \in BOOLEAN, historyFails \in BOOLEAN :
          IF portfolioID \notin Portfolios
             THEN /\ svc' = ServiceError("VAR", "portfolio not found")
                  /\ UNCHANGED <<risk_metrics, risk_history>>
             ELSE IF Len(portfolio_tbl[portfolioID].Positions) = 0
                     THEN /\ svc' = ServiceError("VAR", "portfolio has no positions")
                          /\ UNCHANGED <<risk_metrics, risk_history>>
                     ELSE LET portfolio == portfolio_tbl[portfolioID]
                              var == CalculateVAR(portfolio, historicalReturns)
                              threshold == Rat(portfolio.TotalValue * 5, 100)
                          IN  IF var.err
                                 THEN /\ svc' = ServiceError("VAR", "failed to calculate VaR")
                                      /\ UNCHANGED <<risk_metrics, risk_history>>
                                 ELSE saveMetricAndHistory("VAR",
                                          [portfolio_id |-> portfolioID,
                                           metric_type |-> "VAR",
                                           value |-> var.value,
                                           threshold |-> threshold,
                                           status |->
                                               IF RatGreaterThan(var.value, threshold)
                                                  THEN IF RatGreaterThan(var.value,
                                                              RatMul(threshold, Rat(15, 10)))
                                                          THEN "CRITICAL" ELSE "WARNING"
                                                  ELSE "SAFE"],
                                          metricFails, historyFails)
    /\ UNCHANGED <<alertVars, portfolio_tbl, risk_thresholds, eval, approval, pass,
                   risk_updates, quit, auth, transactions_tbl, hub, calc>>

\* RiskService.CalculatePortfolioLiquidity
CalculatePortfolioLiquidity(portfolioID) ==
    /\ svc.pc = "idle"
    /\ Len(risk_metrics) < MaxMetrics
    /\ \E metricFails \in BOOLEAN, historyFails \in BOOLEAN :
          IF portfolioID \notin Portfolios
             THEN /\ svc' = ServiceError("LIQUIDITY_RATIO", "portfolio not found")
                  /\ UNCHANGED <<risk_metrics, risk_history>>
             ELSE IF Len(portfolio_tbl[portfolioID].Positions) = 0
                     THEN /\ svc' = ServiceError("LIQUIDITY_RATIO",
                                                 "portfolio has no positions")
                          /\ UNCHANGED <<risk_metrics, risk_history>>
                     ELSE \E liquidity \in [DOMAIN portfolio_tbl[portfolioID].Positions
                                                -> LiquidityTags] :
                            LET liquidityRatio ==
                                    CalculateLiquidityRatio(
                                        portfolio_tbl[portfolioID].Positions, liquidity)
                            IN  saveMetricAndHistory("LIQUIDITY_RATIO",
                                    [portfolio_id |-> portfolioID,
                                     metric_type |-> "LIQUIDITY_RATIO",
                                     value |-> liquidityRatio,
                                     threshold |-> Rat(3, 10),
                                     status |-> AssessLiquidityRisk(liquidityRatio)],
                                    metricFails, historyFails)
    /\ UNCHANGED <<alertVars, portfolio_tbl, risk_thresholds, eval, approval, pass,
                   risk_updates, quit, auth, transactions_tbl, hub, calc>>

\* the caller has the metric or the error
ReceiveMetric ==
    /\ svc.pc = "returned"
    /\ svc' = IdleService
    /\ UNCHANGED <<alertVars, portfolio_tbl, risk_thresholds, eval, approval, pass,
                   risk_updates, quit, auth, transactions_tbl, hub, risk_metrics, risk_history, calc>>

----------------------------------------------------------------------------

\* no request, no analysis and no pass under way; new portfolios, no thresholds
EngineAtRest ==
    /\ portfolio_tbl = [p \in Portfolios |-> [TotalValue |-> 0, Positions |-> <<>>]]
    /\ risk_thresholds = <<>>
    /\ eval = [r \in Requests |-> IdleRequest]
    /\ approval = IdleApproval
    /\ pass = IdlePass
    /\ ServicesAtRest
    /\ transactions_tbl = NoTransactions

Init ==
    /\ now = 0
    /\ alerts = <<>>
    /\ gen = [e \in Evaluators |-> Idle]
    /\ alert_cache = {}
    /\ active_alerts = {}
    /\ alerts_channel = {}
    /\ EngineAtRest

Generate(e) ==
    \/ \E p \in Portfolios, s \in Sources : GenerateAlert(e, p, s)
    \/ StoreAndBroadcastAlert(e)
    \/ Return(e)

ServiceLifecycle ==
    \E id \in 1..MaxAlerts :
        \/ SvcAcknowledgeAlert(id)
        \/ SvcResolveAlert(id)

ManagerLifecycle ==
    \/ \E p \in Portfolios, s \in Sources : MgrCreateAlert(p, s)
    \/ \E id \in 1..MaxAlerts :
        \/ MgrAcknowledgeAlert(id)
        \/ MgrResolveAlert(id)

Clock == \E t \in Instants : Tick(t)

\* two evaluators, the alert manager and the analysts, all concurrent
Next ==
    \/ \E e \in Evaluators : Generate(e)
    \/ ServiceLifecycle
    \/ ManagerLifecycle
    \/ Clock

Spec == Init /\ [][Next]_vars

\* the periodic monitor alone raises alerts, one after the other
NextSeq ==
    \/ Generate("e1")
    \/ ServiceLifecycle
    \/ Clock

SpecSeq == Init /\ [][NextSeq]_vars

\* the risk engine: any portfolios, no thresholds yet or one row an
\* administrator has stored for p1
InitEval ==
    /\ now = 0
    /\ alerts = <<>>
    /\ gen = [e \in Evaluators |-> Idle]
    /\ alert_cache = {}
    /\ active_alerts = {}
    /\ alerts_channel = {}
    /\ portfolio_tbl \in [Portfolios -> PortfolioRows]
    /\ risk_thresholds \in {<<>>} \cup {<<row>> : row \in AdminThresholds("p1")}
    /\ eval = [r \in Requests |-> IdleRequest]
    /\ approval = IdleApproval
    /\ pass = IdlePass
    /\ ServicesAtRest
    /\ transactions_tbl = NoTransactions

Serve(r, transactions) ==
    \/ \E p \in RequestedPortfolios, tx \in transactions :
          BeginEvaluateTransaction(r, p, tx)
    \/ \E p \in RequestedPortfolios : BeginMonitorPortfolioRisk(r, p)
    \/ CreateThresholds(r)
    \/ FinishEvaluateTransaction(r)
    \/ FinishMonitorPortfolioRisk(r)
    \/ EndRequest(r)

\* one request after the other, each a pre-trade evaluation of any
\* transaction or a monitor call
NextEval == Serve("r1", Transactions)

SpecEval == InitEval /\ [][NextEval]_vars

\* a desk that keeps the stop-loss requirement and waives the liquidity floor
StopLossThresholds(portfolioID) ==
    AdminThresholds(portfolioID)
        \cup {[GetDefaultThresholds(portfolioID) EXCEPT !.MinLiquidityRatio = Rat(-10, 100)]}

\* the trades of the model and a trade of 1% of a portfolio, with and without stop loss
StopLossTransactions ==
    Transactions \cup [Quantity : {1}, Price : {1}, StopLoss : TxStopLosses]

\* the risk engine with a thresholds row that requires the stop loss
InitStopLoss ==
    /\ now = 0
    /\ alerts = <<>>
    /\ gen = [e \in Evaluators |-> Idle]
    /\ alert_cache = {}
    /\ active_alerts = {}
    /\ alerts_channel = {}
    /\ portfolio_tbl \in [Portfolios -> PortfolioRows]
    /\ risk_thresholds \in {<<>>} \cup {<<row>> : row \in StopLossThresholds("p1")}
    /\ eval = [r \in Requests |-> IdleRequest]
    /\ approval = IdleApproval
    /\ pass = IdlePass
    /\ ServicesAtRest
    /\ transactions_tbl = NoTransactions

NextStopLoss == Serve("r1", StopLossTransactions)

SpecStopLoss == InitStopLoss /\ [][NextStopLoss]_vars

\* the transaction the concurrent requests submit
RaceTransactions == {[Quantity |-> 3, Price |-> 10, StopLoss |-> 0]}

\* two requests at a time
NextRace == \E r \in Requests : Serve(r, RaceTransactions)

SpecRace == InitEval /\ [][NextRace]_vars

\* any analysis of the bounded sets, about to be decided
InitApproval ==
    /\ now = 0
    /\ alerts = <<>>
    /\ gen = [e \in Evaluators |-> Idle]
    /\ alert_cache = {}
    /\ active_alerts = {}
    /\ alerts_channel = {}
    /\ portfolio_tbl = [p \in Portfolios |-> [TotalValue |-> 0, Positions |-> <<>>]]
    /\ risk_thresholds = <<>>
    /\ eval = [r \in Requests |-> IdleRequest]
    /\ approval \in [phase : {"analysed"}, Violations : ViolationLists,
                      RiskScore : ScoreSamples, approved : {FALSE},
                      requiresReview : {FALSE}]
    /\ pass = IdlePass
    /\ ServicesAtRest
    /\ transactions_tbl = NoTransactions

NextApproval ==
    \/ DetermineApprovalStatus
    \/ TakeDecision

SpecApproval == InitApproval /\ [][NextApproval]_vars

\* the monitor pass over any two portfolios
InitPass ==
    /\ now = 0
    /\ alerts = <<>>
    /\ gen = [e \in Evaluators |-> Idle]
    /\ alert_cache = {}
    /\ active_alerts = {}
    /\ alerts_channel = {}
    /\ portfolio_tbl \in [Portfolios -> PortfolioRows]
    /\ risk_thresholds = <<>>
    /\ eval = [r \in Requests |-> IdleRequest]
    /\ approval = IdleApproval
    /\ pass = IdlePass
    /\ ServicesAtRest
    /\ transactions_tbl = NoTransactions

NextPass ==
    \/ StartPass
    \/ \E p \in Portfolios : CheckPortfolio(p)
    \/ EndPass
    \/ Clock

SpecPass == InitPass /\ [][NextPass]_vars

\* main: signal.Notify(quit, os.Interrupt, syscall.SIGTERM).  The signal goes
\* to the goroutine that shuts the HTTP server down; MonitorPortfolioRisks
\* takes no context and its select has the ticker as its only case.
Quit ==
    /\ ~quit
    /\ quit' = TRUE
    /\ UNCHANGED <<alertVars, portfolio_tbl, risk_thresholds, eval, approval, pass,
                   risk_updates, auth, transactions_tbl, hub, risk_metrics,
                   risk_history, svc, calc>>

\* the monitor pass while the process is asked to stop
NextCancel ==
    \/ NextPass
    \/ Quit

SpecCancel == InitPass /\ [][NextCancel]_vars

\* the risk handlers calling RiskService for any portfolio id, one call
\* after the other
NextRisk ==
    \/ \E p \in RequestedPortfolios : CalculatePortfolioVAR(p)
    \/ \E p \in RequestedPortfolios : CalculatePortfolioLiquidity(p)
    \/ ReceiveMetric
    \/ Clock

SpecRisk == InitPass /\ [][NextRisk]_vars

\* liquidity ratios from 0 to 1 in steps of 0.01
RatioSamples == {Rat(k, 100) : k \in 0..100}

\* a call of AssessLiquidityRisk on any sample ratio, about to be evaluated
InitAssess ==
    /\ now = 0
    /\ alerts = <<>>
    /\ gen = [e \in Evaluators |-> Idle]
    /\ alert_cache = {}
    /\ active_alerts = {}
    /\ alerts_channel = {}
    /\ portfolio_tbl = [p \in Portfolios |-> [TotalValue |-> 0, Positions |-> <<>>]]
    /\ risk_thresholds = <<>>
    /\ eval = [r \in Requests |-> IdleRequest]
    /\ approval = IdleApproval
    /\ pass = IdlePass
    /\ risk_updates = {}
    /\ quit = FALSE
    /\ auth = NoUsers
    /\ transactions_tbl = NoTransactions
    /\ hub = NewHub
    /\ risk_metrics = <<>>
    /\ risk_history = <<>>
    /\ svc = IdleService
    /\ calc \in [fn : {"AssessLiquidityRisk"}, pc : {"called"},
                  liquidityRatio : RatioSamples, result : {"none"}]

\* status := s.liquidityCalc.AssessLiquidityRisk(liquidityRatio)
CallAssessLiquidityRisk ==
    /\ calc.fn = "AssessLiquidityRisk"
    /\ calc.pc = "called"
    /\ calc' = [calc EXCEPT !.pc = "returned",
                            !.result = AssessLiquidityRisk(calc.liquidityRatio)]
    /\ UNCHANGED <<alertVars, portfolio_tbl, risk_thresholds, eval, approval, pass,
                   risk_updates, quit, auth, transactions_tbl, hub, risk_metrics, risk_history, svc>>

\* the caller has the risk level
ReturnFromCalculator ==
    /\ calc.pc = "returned"
    /\ calc' = [calc EXCEPT !.pc = "taken"]
    /\ UNCHANGED <<alertVars, portfolio_tbl, risk_thresholds, eval, approval, pass,
                   risk_updates, quit, auth, transactions_tbl, hub, risk_metrics, risk_history, svc>>

NextAssess ==
    \/ CallAssessLiquidityRisk
    \/ ReturnFromCalculator

SpecAssess == InitAssess /\ [][NextAssess]_vars

----------------------------------------------------------------------------
(* calls of LiquidityCalculator.CalculateLiquidity on bounded portfolios    *)
(* and bounded market data                                                  *)

\* everything but the calculator call is at rest
ProgramAtRest ==
    /\ now = 0
    /\ alerts = <<>>
    /\ gen = [e \in Evaluators |-> Idle]
    /\ alert_cache = {}
    /\ active_alerts = {}
    /\ alerts_channel = {}
    /\ portfolio_tbl = [p \in Portfolios |-> [TotalValue |-> 0, Positions |-> <<>>]]
    /\ risk_thresholds = <<>>
    /\ eval = [r \in Requests |-> IdleRequest]
    /\ approval = IdleApproval
    /\ pass = IdlePass
    /\ risk_updates = {}
    /\ quit = FALSE
    /\ auth = NoUsers
    /\ transactions_tbl = NoTransactions
    /\ hub = NewHub
    /\ risk_metrics = <<>>
    /\ risk_history = <<>>
    /\ svc = IdleService

AssetTypes == {"STOCK", "GOVERNMENT_BOND", "CASH", "MONEY_MARKET", "CORPORATE_BOND",
               "CRYPTO"}

\* GetMarketDepth's answers: a nil *MarketDepth, a book deeper than twice the
\* position, and one of a quarter of it
NilBook == [isNil |-> TRUE, BidLevels |-> <<>>, AskLevels |-> <<>>]

DeepBook == [isNil |-> FALSE,
             BidLevels |-> <<[Price |-> 10, Quantity |-> 1000]>>,
             AskLevels |-> <<[Price |-> 10, Quantity |-> 1000]>>]

ShallowBook == [isNil |-> FALSE,
                BidLevels |-> <<[Price |-> 10, Quantity |-> 30]>>,
                AskLevels |-> <<[Price |-> 10, Quantity |-> 30]>>]

\* what a provider may answer for a symbol; MarketCap in millions
MarketDataSamples ==
    [AverageDailyVolume : {0, 100, 1000000},
     BidAskSpread : {Rat(5, 10000), Rat(2, 100)},
     MarketCap : {20000, 100},
     MarketDepth : {NilBook, DeepBook, ShallowBook}]

LiquidMarket == [AverageDailyVolume |-> 1000000, BidAskSpread |-> Rat(5, 10000),
                 MarketCap |-> 20000, MarketDepth |-> DeepBook]

\* providers: any answer for AAA, a liquid large cap for BBB
MarketDataProviders == {[s \in {"AAA", "BBB"} |-> IF s = "AAA" THEN d ELSE LiquidMarket] :
                           d \in MarketDataSamples}

\* position lists: none, one position of any asset type, or that and a stock
PositionLists ==
    LET first(t) == [Symbol |-> "AAA", AssetType |-> t, Quantity |-> 100,
                     MarketValue |-> 1000]
        second == [Symbol |-> "BBB", AssetType |-> "STOCK", Quantity |-> 100,
                   MarketValue |-> 1000]
    IN  {<<>>} \cup {<<first(t)>> : t \in AssetTypes}
               \cup {<<first(t), second>> : t \in AssetTypes}

\* the portfolio values passed: a new portfolio's 0, a stale value below the
\* positions' worth, and values at and above it
PortfolioValues == {0, 1000, 2000, 4000}

InitLiquidity ==
    /\ ProgramAtRest
    /\ calc \in [fn : {"CalculateLiquidity"}, pc : {"called"},
                 marketData : MarketDataProviders, positions : PositionLists,
                 portfolioValue : PortfolioValues, result : {"none"}]

\* result, err := l.CalculateLiquidity(positions, portfolioValue)
CallCalculateLiquidity ==
    /\ calc.fn = "CalculateLiquidity"
    /\ calc.pc = "called"
    /\ calc' = [calc EXCEPT !.pc = "returned",
                            !.result = CalculateLiquidityWith(calc.marketData,
                                                              calc.positions,
                                                              calc.portfolioValue)]
    /\ UNCHANGED <<alertVars, portfolio_tbl, risk_thresholds, eval, approval, pass,
                   risk_updates, quit, auth, transactions_tbl, hub, risk_metrics, risk_history, svc>>

NextLiquidity ==
    \/ CallCalculateLiquidity
    \/ ReturnFromCalculator

SpecLiquidity == InitLiquidity /\ [][NextLiquidity]_vars

----------------------------------------------------------------------------
(* calls of VaRCalculator.CalculateVaR on bounded positions and histories   *)

VaRSymbols == {"AAA", "BBB"}

\* position lists: none, one position, two positions
VaRPositionLists ==
    LET first == [Symbol |-> "AAA", Quantity |-> 10, CurrentPrice |-> 2]
        second == [Symbol |-> "BBB", Quantity |-> 10, CurrentPrice |-> 1]
    IN  {<<>>, <<first>>, <<first, second>>}

\* price series: none, one point, a rise, a fall, no move, and two series of
\* four points whose returns are evenly spaced
PriceSeriesSamples ==
    {<<>>, <<1>>, <<1, 2>>, <<2, 1>>, <<2, 2>>, <<4, 2, 2, 3>>, <<2, 2, 3, 6>>}

\* the price histories: any series for any of the symbols
PriceHistories ==
    UNION {[symbols -> PriceSeriesSamples] : symbols \in SUBSET VaRSymbols}

\* the number of price points every symbol of the history has
AlignedPricePoints(priceHistory) ==
    IF DOMAIN priceHistory = {} THEN 0 ELSE MinLength(priceHistory)

\* the calls whose standard deviations math.Sqrt gives exactly
VaRCalls ==
    {c \in [fn : {"CalculateVaR"}, pc : {"called"}, positions : VaRPositionLists,
            priceHistory : PriceHistories, timeHorizon : {1, 10}, result : {"none"}] :
        /\ HasExactStdDev(calculatePortfolioReturns(c.positions, c.priceHistory))
        /\ \A sym \in DOMAIN c.priceHistory :
              HasExactStdDev(calculateReturns(c.priceHistory[sym]))}

InitVaR ==
    /\ ProgramAtRest
    /\ calc \in VaRCalls

\* result, err := v.CalculateVaR(positions, priceHistory, timeHorizon)
CallCalculateVaR ==
    /\ calc.fn = "CalculateVaR"
    /\ calc.pc = "called"
    /\ \E sim \in SimulatedPercentiles(calc.positions, calc.priceHistory) :
          calc' = [calc EXCEPT !.pc = "returned",
                               !.result = VaRCalculator_CalculateVaR(
                                              calc.positions, calc.priceHistory,
                                              calc.timeHorizon, sim,
                                              DefaultPortfolioValue)]
    /\ UNCHANGED <<alertVars, portfolio_tbl, risk_thresholds, eval, approval, pass,
                   risk_updates, quit, auth, transactions_tbl, hub, risk_metrics, risk_history, svc>>

NextVaR ==
    \/ CallCalculateVaR
    \/ ReturnFromCalculator

SpecVaR == InitVaR /\ [][NextVaR]_vars

----------------------------------------------------------------------------
(* calls of RiskEngineService.checkConcentrationRisk on bounded portfolios  *)

\* the portfolio rows of the evaluations and one spread evenly over four
\* positions
ConcentrationPortfolios ==
    PortfolioRows \cup {[TotalValue |-> 100, Positions |-> <<25, 25, 25, 25>>]}

InitConcentration ==
    /\ ProgramAtRest
    /\ calc \in [fn : {"checkConcentrationRisk"}, pc : {"called"},
                 tx : Transactions, portfolio : ConcentrationPortfolios,
                 thresholds : {GetDefaultThresholds("p1")} \cup AdminThresholds("p1"),
                 result : {"none"}]

\* concentrationResult := res.checkConcentrationRisk(tx, &portfolio, thresholds)
CallCheckConcentrationRisk ==
    /\ calc.fn = "checkConcentrationRisk"
    /\ calc.pc = "called"
    /\ calc' = [calc EXCEPT !.pc = "returned",
                            !.result = checkConcentrationRisk(calc.tx, calc.portfolio,
                                                              calc.thresholds)]
    /\ UNCHANGED <<alertVars, portfolio_tbl, risk_thresholds, eval, approval, pass,
                   risk_updates, quit, auth, transactions_tbl, hub, risk_metrics, risk_history, svc>>

NextConcentration ==
    \/ CallCheckConcentrationRisk
    \/ ReturnFromCalculator

SpecConcentration == InitConcentration /\ [][NextConcentration]_vars

----------------------------------------------------------------------------
(* the severity of VaR breach alerts: calls of                              *)
(* AlertService.CreateRiskBreachAlert and of generateVaRAlert               *)

\* generateVaRAlert: MEDIUM, or HIGH for the status CRITICAL
VaRAlertSeverity(status) == IF status = "CRITICAL" THEN "HIGH" ELSE "MEDIUM"

\* current values and thresholds, as fractions of the portfolio value
BreachValues == {Rat(k, 100) : k \in {0, 5, 6, 10, 11, 12, 20, 25}}

BreachThresholds == {Rat(-1, 100), Rat(0, 1), Rat(5, 100), Rat(10, 100)}

InitSeverity ==
    /\ ProgramAtRest
    /\ calc \in [fn : {"CreateRiskBreachAlert", "generateVaRAlert"}, pc : {"called"},
                 currentValue : BreachValues, threshold : BreachThresholds,
                 Status : {"WARNING", "CRITICAL"}, result : {"none"}]

\* err := alertService.CreateRiskBreachAlert(portfolioID, "VAR", currentValue,
\* threshold): the insert of CreateAlert, or its error
CallCreateRiskBreachAlert ==
    /\ calc.fn = "CreateRiskBreachAlert"
    /\ calc.pc = "called"
    /\ \/ /\ alerts' = Append(alerts, CreateRiskBreachAlert("p1", "VAR", calc.currentValue,
                                                           calc.threshold))
          /\ calc' = [calc EXCEPT !.pc = "returned", !.result = "nil"]
       \/ /\ alerts' = alerts
          /\ calc' = [calc EXCEPT !.pc = "returned", !.result = "error"]
    /\ UNCHANGED <<now, gen, alert_cache, active_alerts, alerts_channel, portfolio_tbl,
                   risk_thresholds, eval, approval, pass, risk_updates, quit, auth, transactions_tbl, hub,
                   risk_metrics, risk_history, svc>>

\* a.generateVaRAlert(varResult) for a result of status WARNING or CRITICAL:
\* nothing if alertExists, else the alert through storeAndBroadcastAlert
CallGenerateVaRAlert ==
    /\ calc.fn = "generateVaRAlert"
    /\ calc.pc = "called"
    /\ IF alertExists("p1", "RISK_BREACH", VaRAlertWindow)
          THEN /\ calc' = [calc EXCEPT !.pc = "returned", !.result = "exists"]
               /\ UNCHANGED <<alerts, alert_cache, active_alerts, alerts_channel>>
          ELSE \/ /\ alerts' = Append(alerts,
                                      EngineAlert("p1", "RISK_BREACH",
                                                  VaRAlertSeverity(calc.Status),
                                                  "VaR Limit", "VAR_CALCULATOR"))
                  /\ Broadcast(Len(alerts) + 1, FALSE)
                  /\ calc' = [calc EXCEPT !.pc = "returned", !.result = "stored"]
               \/ /\ alerts' = alerts
                  /\ Broadcast(Len(alerts) + 1, TRUE)
                  /\ calc' = [calc EXCEPT !.pc = "returned", !.result = "error"]
    /\ UNCHANGED <<now, gen, portfolio_tbl, risk_thresholds, eval, approval, pass,
                   risk_updates, quit, auth, transactions_tbl, hub, risk_metrics, risk_history, svc>>

NextSeverity ==
    \/ CallCreateRiskBreachAlert
    \/ CallGenerateVaRAlert
    \/ ReturnFromCalculator

SpecSeverity == InitSeverity /\ [][NextSeverity]_vars

----------------------------------------------------------------------------
(* Claims *)

SameKey(a, b) ==
    /\ a.portfolio_id = b.portfolio_id
    /\ a.alert_type = b.alert_type

\* an ACTIVE alert of (p, type) whose age is less than `minutes`
RecentActive(p, type, minutes) ==
    \E i \in DOMAIN alerts :
        /\ alerts[i].portfolio_id = p
        /\ alerts[i].alert_type = type
        /\ alerts[i].status = "ACTIVE"
        /\ now - alerts[i].created_at < minutes

\* C1: raised one after the other, two alerts of the same (portfolioId,
\* alertType) are both persisted only if the second was created at least one
\* deduplication window of its generator after the first (while the first is
\* ACTIVE), and a raise made once the window has elapsed is not suppressed:
\* it goes on to insert a second alert.
C1_OnePerWindow ==
    /\ [](\A i, j \in DOMAIN alerts :
            (i < j /\ SameKey(alerts[i], alerts[j]) /\ alerts[i].status = "ACTIVE")
                => alerts[j].created_at - alerts[i].created_at
                       >= WindowOf(alerts[j].source))
    /\ [][\A p \in Portfolios, s \in Sources :
            (GenerateAlert("e1", p, s)
               /\ ~RecentActive(p, AlertTypeOf(s), WindowOf(s)))
                => gen'["e1"] = [pc |-> "store", portfolio_id |-> p, source |-> s]]_vars

\* two ACTIVE alerts of one key, the second a full window after the first
C1_Witness ==
    \E i, j \in DOMAIN alerts :
        /\ i < j
        /\ SameKey(alerts[i], alerts[j])
        /\ alerts[i].status = "ACTIVE"
        /\ alerts[j].status = "ACTIVE"
        /\ alerts[i].created_at < alerts[j].created_at

\* C2: a suppressed raise inserts no row and publishes nothing, and an alert
\* id is in the Redis cache, in active_alerts or on alerts_channel only if
\* its row was persisted.
C2_PublishedOnlyIfPersisted ==
    /\ [](alert_cache \cup active_alerts \cup alerts_channel \subseteq DOMAIN alerts)
    /\ [][\A e \in Evaluators, p \in Portfolios, s \in Sources :
            (GenerateAlert(e, p, s) /\ gen'[e].pc = "returned")
                => UNCHANGED <<alerts, alert_cache, active_alerts, alerts_channel>>]_vars
    /\ [][\A e \in Evaluators :
            (gen[e].pc = "store" /\ gen'[e].pc = "returned" /\ alerts' = alerts)
                => UNCHANGED <<alert_cache, active_alerts, alerts_channel>>]_vars

\* an evaluator has returned, and the one persisted alert is the one published
C2_Witness ==
    /\ \E e \in Evaluators : gen[e].pc = "returned"
    /\ Len(alerts) = 1
    /\ alerts_channel = {1}
    /\ active_alerts = {1}

\* C3: deduplication is check-then-act: an evaluator that has passed its
\* existence check can always insert its alert, also when a recent ACTIVE
\* alert of the same key has been persisted in the meantime, so concurrent
\* evaluators can persist two ACTIVE alerts of one key inside one window.
C3_CheckThenAct ==
    \A e \in Evaluators :
        gen[e].pc = "store"
            => ENABLED (StoreAndBroadcastAlert(e) /\ Len(alerts') = Len(alerts) + 1)

\* two generator alerts of one key, both ACTIVE, created at the same instant
C3_Witness ==
    /\ Len(alerts) = 2
    /\ SameKey(alerts[1], alerts[2])
    /\ alerts[1].source = alerts[2].source
    /\ alerts[1].status = "ACTIVE"
    /\ alerts[2].status = "ACTIVE"
    /\ alerts[1].created_at = alerts[2].created_at
    /\ \A e \in Evaluators : gen[e].pc = "returned"

\* the deduplication window of the claim, by alert type and checker
ClaimedWindow(s) ==
    CASE AlertTypeOf(s) = "RISK_BREACH" -> 10
      [] AlertTypeOf(s) = "LIQUIDITY_RISK" -> 15
      [] AlertTypeOf(s) = "COMPLIANCE_VIOLATION" -> 5
      [] AlertTypeOf(s) = "SUSPICIOUS_ACTIVITY" /\ s = "AML_CHECKER" -> 60
      [] AlertTypeOf(s) = "SUSPICIOUS_ACTIVITY" /\ s = "VELOCITY_CHECKER" -> 30

\* C4: a raise is suppressed if and only if an alert of the same portfolio
\* and the same type, with status ACTIVE, was created within the raise's
\* window (10, 15, 5, 60 or 30 minutes).
C4_SuppressedIffRecentActive ==
    [][\A p \in Portfolios, s \in Sources :
          GenerateAlert("e1", p, s)
             => ((gen'["e1"].pc = "returned")
                    <=> RecentActive(p, AlertTypeOf(s), ClaimedWindow(s)))]_vars

\* a raise has passed the check although the table holds an alert of the same
\* key created this very instant: that alert is acknowledged, not ACTIVE
C4_Witness ==
    /\ gen["e1"].pc = "store"
    /\ Len(alerts) = 1
    /\ alerts[1].portfolio_id = gen["e1"].portfolio_id
    /\ alerts[1].alert_type = AlertTypeOf(gen["e1"].source)
    /\ alerts[1].status = "ACKNOWLEDGED"
    /\ alerts[1].created_at = now

\* C5: RESOLVED and DISMISSED are terminal: once an alert is RESOLVED or
\* DISMISSED, no acknowledge or resolve operation changes its status again.
C5_TerminalStatus ==
    [][\A id \in DOMAIN alerts :
          alerts[id].status \in {"RESOLVED", "DISMISSED"}
             => alerts'[id].status = alerts[id].status]_vars

\* C6: the risk score of every completed pre-trade evaluation is at least 0
\* and at most 100.
C6_RiskScoreInRange ==
    \A r \in Requests :
        (eval[r].pc = "done" /\ eval[r].kind = "trade")
            => /\ eval[r].analysis.RiskScore.den > 0
               /\ eval[r].analysis.RiskScore.num >= 0
               /\ eval[r].analysis.RiskScore.num <= 100 * eval[r].analysis.RiskScore.den

\* an evaluation with a single violation has ended with its score at the cap
C6_Witness ==
    /\ eval["r1"].pc = "done"
    /\ eval["r1"].kind = "trade"
    /\ eval["r1"].analysis.RiskScore = [num |-> 100, den |-> 1]
    /\ Len(eval["r1"].analysis.Violations) = 1

\* the decision the table of the claim gives for a list of violations and a score
TableDecision(violations, score) ==
    IF \E i \in DOMAIN violations : violations[i].Severity = "CRITICAL"
       THEN <<FALSE, FALSE>>
       ELSE IF score.num > 70 * score.den \/ Len(violations) > 2
               THEN <<FALSE, TRUE>>
               ELSE IF score.num < 30 * score.den /\ Len(violations) = 0
                       THEN <<TRUE, FALSE>>
                       ELSE <<FALSE, TRUE>>

\* C7: the decision follows the table: a CRITICAL violation rejects; else a
\* score above 70 or more than two violations requires review; else a score
\* below 30 without violations approves; anything else requires review.  So
\* a CRITICAL violation is never approved and no decision is both approved
\* and requiring review.
C7_ApprovalTable ==
    approval.phase = "decided"
        => /\ <<approval.approved, approval.requiresReview>>
                  = TableDecision(approval.Violations, approval.RiskScore)
           /\ (\E i \in DOMAIN approval.Violations :
                   approval.Violations[i].Severity = "CRITICAL") => ~approval.approved
           /\ ~(approval.approved /\ approval.requiresReview)

\* a low score and two violations, one of them CRITICAL, have been rejected
C7_Witness ==
    /\ approval.phase = "decided"
    /\ Len(approval.Violations) = 2
    /\ approval.Violations[2].Severity = "CRITICAL"
    /\ approval.RiskScore = [num |-> 0, den |-> 1]
    /\ ~approval.approved
    /\ ~approval.requiresReview

\* the rows a step has appended to the alerts table
NewAlerts == SubSeq(alerts', Len(alerts) + 1, Len(alerts'))

\* the violations of severity CRITICAL or VIOLATION, in their order
Alerting(violations) ==
    SelectSeq(violations, LAMBDA v : v.Severity \in {"CRITICAL", "VIOLATION"})

\* the new rows are one RISK_VIOLATION alert per alerting violation
OnePerAlerting(portfolioID, violations) ==
    /\ Len(NewAlerts) = Len(Alerting(violations))
    /\ \A i \in DOMAIN NewAlerts :
          /\ NewAlerts[i].alert_type = "RISK_VIOLATION"
          /\ NewAlerts[i].portfolio_id = portfolioID
          /\ NewAlerts[i].severity = Alerting(violations)[i].Severity
          /\ NewAlerts[i].title = Alerting(violations)[i].Type

\* C8 as stated: alerts are raised only when the trade is rejected
\* (approved = false, requiresReview = false), one per CRITICAL or VIOLATION
\* violation; an approved trade and a trade that requires review raise none.
C8_AlertsOnlyOnRejection ==
    [][\A r \in Requests :
          (eval[r].pc = "evaluate" /\ eval[r].kind = "trade" /\ eval'[r].pc = "done")
             => IF ~eval'[r].analysis.Approved /\ ~eval'[r].analysis.RequiresReview
                   THEN OnePerAlerting(eval[r].portfolio_id, eval'[r].analysis.Violations)
                   ELSE NewAlerts = <<>>]_vars

\* C8: an evaluation raises RISK_VIOLATION alerts whenever it does not approve
\* the trade, rejected or requiring review: one alert for each violation of
\* severity CRITICAL or VIOLATION, none for a WARNING; an approved trade
\* raises none, and nothing else changes the alerts table.
C8_AlertsUnlessApproved ==
    [][/\ \A r \in Requests :
            (eval[r].pc = "evaluate" /\ eval[r].kind = "trade" /\ eval'[r].pc = "done")
               => IF ~eval'[r].analysis.Approved
                     THEN OnePerAlerting(eval[r].portfolio_id,
                                         eval'[r].analysis.Violations)
                     ELSE NewAlerts = <<>>
       /\ (\A r \in Requests : eval[r].pc = "evaluate" => eval[r].kind = "trade")
             => (alerts' = alerts
                 \/ \E r \in Requests : eval[r].pc = "evaluate" /\ eval'[r].pc = "done")]_vars

\* a trade that requires review has raised the alert of its POSITION_SIZE
\* violation and none for its two warnings
C8_Witness ==
    /\ eval["r1"].pc = "done"
    /\ eval["r1"].kind = "trade"
    /\ eval["r1"].analysis.RequiresReview
    /\ Len(eval["r1"].analysis.Violations) = 3
    /\ Len(alerts) = 1
    /\ alerts[1].alert_type = "RISK_VIOLATION"
    /\ alerts[1].title = "POSITION_SIZE"

\* C9: a portfolio has at most one RiskThresholds record, exactly one once a
\* request has its thresholds, and a lazily created record holds the defaults.
C9_OneThresholdsRecord ==
    \A p \in Portfolios :
        /\ Cardinality(ThresholdsOf(p)) <= 1
        /\ (\E r \in Requests : eval[r].pc \in {"evaluate", "done"}
                                  /\ eval[r].portfolio_id = p)
               => Cardinality(ThresholdsOf(p)) = 1

\* C10: a pass that has ended has left no portfolio unevaluated: whatever
\* happened to one portfolio, every other portfolio of the pass was checked.
C10_PassCoversAll ==
    pass.state \in {"done", "crashed"} => pass.remaining = {}

\* C11: in every pass of the recurring monitor, every portfolio the pass has
\* evaluated has a {portfolio_id, var, liquidity, timestamp} event on the
\* risk_updates channel.
C11_PassPublishesRiskUpdate ==
    \A p \in pass.checked : \E u \in risk_updates : u.portfolio_id = p

\* C12: once the cancellation signal is raised the monitor evaluates no
\* further portfolio and starts no further pass: the only steps left to the
\* pass are those that end it.
C12_CancelStopsPass ==
    [][quit => (pass' = pass \/ pass'.state = "idle")]_vars

\* C14: a call that raised an alert whose insert failed does not return
\* without an error: MonitorPortfolioRisk never returns nil with the error of
\* CreateRiskBreachAlert dropped.
C14_AlertFailurePropagates ==
    \A r \in Requests :
        (eval[r].pc = "done" /\ eval[r].kind = "monitor")
            => eval[r].analysis.create_errors = {}

\* C15: the checks of a portfolio whose TotalValue is zero never divide by
\* zero: a pass that crashed did not crash on such a portfolio.
C15_ZeroValueShortCircuits ==
    pass.state = "crashed" => portfolio_tbl[pass.panicked].TotalValue /= 0

\* C13: a RiskService calculation returns without an error exactly when it
\* has added its RiskMetric row, whether or not the RiskHistory row was
\* written, and then returns that row; when the RiskMetric row is not
\* written it returns an error, no metric, and writes no history.
C13_HistoryFailureTolerated ==
    [][(svc.pc = "idle" /\ svc'.pc = "returned")
          => /\ svc'.err = "none" <=> Len(risk_metrics') = Len(risk_metrics) + 1
             /\ svc'.err = "none"
                   => /\ svc'.metric = risk_metrics'[Len(risk_metrics')]
                      /\ svc'.warning <=> risk_history' = risk_history
             /\ svc'.err /= "none"
                   => /\ svc'.metric = NoMetric
                      /\ risk_metrics' = risk_metrics
                      /\ risk_history' = risk_history]_vars

\* a calculation has returned its metric although the history row failed
C13_Witness ==
    /\ svc.pc = "returned"
    /\ svc.err = "none"
    /\ svc.warning
    /\ svc.metric = risk_metrics[Len(risk_metrics)]
    /\ Len(risk_history) < Len(risk_metrics)

\* C20: AssessLiquidityRisk returns HIGH_RISK for a liquidity ratio of 0.25,
\* MEDIUM_RISK for 0.5 and LOW_RISK for 0.8.
C20_AssessLiquidityRiskLevels ==
    (calc.fn = "AssessLiquidityRisk" /\ calc.pc = "returned")
        => /\ calc.liquidityRatio = Rat(25, 100) => calc.result = "HIGH_RISK"
           /\ calc.liquidityRatio = Rat(50, 100) => calc.result = "MEDIUM_RISK"
           /\ calc.liquidityRatio = Rat(80, 100) => calc.result = "LOW_RISK"

\* C16: the VaR calculation fails with an insufficient-data error, and
\* returns no result, when the position list is empty or fewer than 2 aligned
\* price points exist across all symbols.
C16_InsufficientDataFails ==
    (/\ calc.fn = "CalculateVaR"
     /\ calc.pc = "returned"
     /\ (Len(calc.positions) = 0 \/ AlignedPricePoints(calc.priceHistory) < 2)) =>
        calc.result.err = "InsufficientDataError"

\* C17: for each of the three methods (historical, parametric, Monte Carlo),
\* VaR99 >= VaR95 and VaR95 >= 0.
C17_VaROrderedAndNonNegative ==
    (calc.fn = "CalculateVaR" /\ calc.pc = "returned") =>
        /\ ~RatLessThan(calc.result.HistoricalVaR99, calc.result.HistoricalVaR95)
        /\ ~RatLessThan(calc.result.HistoricalVaR95, Rat(0, 1))
        /\ ~RatLessThan(calc.result.ParametricVaR99, calc.result.ParametricVaR95)
        /\ ~RatLessThan(calc.result.ParametricVaR95, Rat(0, 1))
        /\ ~RatLessThan(calc.result.MonteCarloVaR99, calc.result.MonteCarloVaR95)
        /\ ~RatLessThan(calc.result.MonteCarloVaR95, Rat(0, 1))

C19_RatioAndScoreInRange ==
    (calc.fn = "CalculateLiquidity" /\ calc.pc = "returned") =>
        /\ FloatGeq(calc.result.LiquidityRatio, Rat(0, 1))
        /\ FloatGeq(Rat(1, 1), calc.result.LiquidityRatio)
        /\ FloatGeq(calc.result.WeightedLiquidityScore, Rat(0, 1))
        /\ FloatGeq(Rat(100, 1), calc.result.WeightedLiquidityScore)
        /\ \A i \in 1..Len(calc.positions) :
              /\ FloatGeq(calc.result.Positions[i].LiquidityScore, Rat(0, 1))
              /\ FloatGeq(Rat(100, 1), calc.result.Positions[i].LiquidityScore)

----------------------------------------------------------------------------
(* AuthService.Register behind POST /api/v1/auth/register *)

\* First(&existingUser) WHERE email = ? finds a row
UserExists(users, email) == \E i \in DOMAIN users : users[i] = email

\* db.Create(&user) on a users table without the unique index on email
CreateUserWithoutIndex(users, email) ==
    [users |-> Append(users, email), err |-> FALSE]

\* db.Create(&user): the unique index on email refuses a second row
CreateUser(users, email) ==
    IF UserExists(users, email)
       THEN [users |-> users, err |-> TRUE]
       ELSE [users |-> Append(users, email), err |-> FALSE]

\* the handler's answer to what Register returned
RegisterStatus(err) == IF err THEN 400 ELSE 201

\* Register, the existence check: err == nil returns "user already exists";
\* every other outcome of the query, a failed query included, goes on.
\* existed records whether the email belonged to a user when the request began.
BeginRegister(g, email) ==
    /\ auth.reg[g].pc = "idle"
    /\ LET request == [pc |-> "create", email |-> email, err |-> FALSE, status |-> 0,
                       existed |-> UserExists(auth.users, email)]
       IN  \/ /\ UserExists(auth.users, email)
              /\ auth' = [auth EXCEPT !.reg[g] =
                             [request EXCEPT !.pc = "respond", !.err = TRUE]]
           \/ auth' = [auth EXCEPT !.reg[g] = request]
    /\ UNCHANGED <<alertVars, portfolio_tbl, risk_thresholds, eval, approval, pass,
                   risk_updates, quit, transactions_tbl, hub, risk_metrics,
                   risk_history, svc, calc>>

\* Register from the hash on: bcrypt may fail, the insert may fail
CreateRegisteredUser(g) ==
    /\ auth.reg[g].pc = "create"
    /\ \/ auth' = [auth EXCEPT !.reg[g].pc = "respond", !.reg[g].err = TRUE]
       \/ LET created == CreateUser(auth.users, auth.reg[g].email)
          IN  auth' = [auth EXCEPT !.users = created.users,
                                   !.reg[g].pc = "respond",
                                   !.reg[g].err = created.err]
    /\ UNCHANGED <<alertVars, portfolio_tbl, risk_thresholds, eval, approval, pass,
                   risk_updates, quit, transactions_tbl, hub, risk_metrics,
                   risk_history, svc, calc>>

\* the handler answers
RespondRegister(g) ==
    /\ auth.reg[g].pc = "respond"
    /\ auth' = [auth EXCEPT !.reg[g].pc = "done",
                            !.reg[g].status = RegisterStatus(auth.reg[g].err)]
    /\ UNCHANGED <<alertVars, portfolio_tbl, risk_thresholds, eval, approval, pass,
                   risk_updates, quit, transactions_tbl, hub, risk_metrics,
                   risk_history, svc, calc>>

\* the connection is free for the next request
EndRegister(g) ==
    /\ auth.reg[g].pc = "done"
    /\ auth' = [auth EXCEPT !.reg[g] = IdleRegistration]
    /\ UNCHANGED <<alertVars, portfolio_tbl, risk_thresholds, eval, approval, pass,
                   risk_updates, quit, transactions_tbl, hub, risk_metrics,
                   risk_history, svc, calc>>

\* two clients registering, any emails, concurrently
NextAuth ==
    \E g \in Registrants :
        \/ \E email \in Emails : BeginRegister(g, email)
        \/ CreateRegisteredUser(g)
        \/ RespondRegister(g)
        \/ EndRegister(g)

SpecAuth == Init /\ [][NextAuth]_vars

----------------------------------------------------------------------------
(* AlertGeneratorService.checkForAMLAlerts over the transactions table *)

\* tx.Amount.GreaterThan(decimal.NewFromInt(10000))
AMLThreshold == 10000

\* detectHighVelocity: count > 10
VelocityThreshold == 10

MaxTransactions == 2

MaxAMLAlerts == 2

TxAmounts == {5000, 20000}

\* the alert row of generateAMLAlert (transactionID in TriggeredBy) and of
\* generateVelocityAlert (no transaction)
AMLAlert(portfolioID, source, transactionID) ==
    [portfolio_id   |-> portfolioID,
     alert_type     |-> AlertTypeOf(source),
     source         |-> source,
     status         |-> "ACTIVE",
     created_at     |-> now,
     transaction_id |-> transactionID]

\* generateAMLAlert without the alertExists check
generateAMLAlertUnchecked(tbl, portfolioID, transactionID, createFails) ==
    [alerts |-> IF createFails
                   THEN tbl
                   ELSE Append(tbl, AMLAlert(portfolioID, "AML_CHECKER", transactionID)),
     update |-> TRUE]

\* generateAMLAlert: return when alertExists; else storeAndBroadcastAlert,
\* which returns nothing, and then Update("aml_checked", true) in any case
generateAMLAlert(tbl, portfolioID, transactionID, createFails) ==
    IF ExistsIn(tbl, portfolioID, "SUSPICIOUS_ACTIVITY", AMLAlertWindow)
       THEN [alerts |-> tbl, update |-> FALSE]
       ELSE [alerts |-> IF createFails
                           THEN tbl
                           ELSE Append(tbl, AMLAlert(portfolioID, "AML_CHECKER",
                                                     transactionID)),
             update |-> TRUE]

\* generateVelocityAlert
generateVelocityAlert(tbl, portfolioID, createFails) ==
    IF ExistsIn(tbl, portfolioID, "SUSPICIOUS_ACTIVITY", VelocityAlertWindow)
          \/ createFails
       THEN tbl
       ELSE Append(tbl, AMLAlert(portfolioID, "VELOCITY_CHECKER", 0))

\* detectHighVelocity: the transactions of the last 24 hours, counted
detectHighVelocity(portfolioID) ==
    Len(transactions_tbl[portfolioID].rows) + transactions_tbl[portfolioID].more
        > VelocityThreshold

RECURSIVE checkTransactions(_, _, _, _, _, _)
\* the loop of checkForAMLAlerts from transaction i on: st is the alerts table
\* and the transaction rows so far, createFailing the transactions whose alert
\* insert fails, updateFailing those whose Update fails
checkTransactions(portfolioID, i, st, createFailing, updateFailing, velocityFails) ==
    IF i > Len(st.rows)
       THEN st
       ELSE LET tx == st.rows[i]
                generated ==
                    IF tx.Amount > AMLThreshold /\ ~tx.AMLChecked
                       THEN generateAMLAlert(st.alerts, portfolioID, i,
                                             i \in createFailing)
                       ELSE [alerts |-> st.alerts, update |-> FALSE]
                afterAML ==
                    [alerts |-> generated.alerts,
                     rows |-> IF generated.update /\ i \notin updateFailing
                                 THEN [st.rows EXCEPT ![i].AMLChecked = TRUE]
                                 ELSE st.rows]
            IN  IF detectHighVelocity(portfolioID)
                   THEN [afterAML EXCEPT
                            !.alerts = generateVelocityAlert(afterAML.alerts, portfolioID,
                                                             velocityFails)]
                   ELSE checkTransactions(portfolioID, i + 1, afterAML, createFailing,
                                          updateFailing, velocityFails)

\* the transactions of all portfolios in the last 24 hours
RECURSIVE RecordedTransactions(_)
RecordedTransactions(portfolios) ==
    IF portfolios = {}
       THEN 0
       ELSE LET p == CHOOSE q \in portfolios : TRUE
            IN  Len(transactions_tbl[p].rows) + RecordedTransactions(portfolios \ {p})

\* a transaction of the portfolio is recorded: aml_checked defaults to false,
\* and the mock data generator also stores large transactions already checked
RecordTransaction(portfolioID) ==
    /\ RecordedTransactions(Portfolios) < MaxTransactions
    /\ \E amount \in TxAmounts, checked \in BOOLEAN :
          /\ checked => amount > AMLThreshold
          /\ transactions_tbl' =
                 [transactions_tbl EXCEPT ![portfolioID].rows =
                     Append(@, [Amount |-> amount, AMLChecked |-> checked])]
    /\ UNCHANGED <<alertVars, portfolio_tbl, risk_thresholds, eval, approval, pass,
                   risk_updates, quit, auth, hub, risk_metrics, risk_history, svc, calc>>

\* a burst of small transactions, none above the AML threshold
RecordSmallTransactions(portfolioID) ==
    /\ transactions_tbl[portfolioID].more = 0
    /\ transactions_tbl' = [transactions_tbl EXCEPT ![portfolioID].more = VelocityThreshold]
    /\ UNCHANGED <<alertVars, portfolio_tbl, risk_thresholds, eval, approval, pass,
                   risk_updates, quit, auth, hub, risk_metrics, risk_history, svc, calc>>

\* checkForAMLAlerts(portfolioID): Find the transactions (its error returns),
\* then the loop; every persisted alert is cached, added to active_alerts and
\* published.  large is the number of large unchecked transactions Find returned.
CheckForAMLAlerts(portfolioID) ==
    /\ Len(alerts) < MaxAMLAlerts
    /\ \/ UNCHANGED <<alerts, redisVars, transactions_tbl>>
       \/ \E createFailing, updateFailing \in
                 SUBSET DOMAIN transactions_tbl[portfolioID].rows,
             velocityFails \in BOOLEAN :
             LET rows == transactions_tbl[portfolioID].rows
                 after == checkTransactions(portfolioID, 1,
                                            [alerts |-> alerts, rows |-> rows],
                                            createFailing, updateFailing, velocityFails)
                 created == (Len(alerts) + 1)..Len(after.alerts)
             IN  /\ alerts' = after.alerts
                 /\ alert_cache' = alert_cache \cup created
                 /\ active_alerts' = active_alerts \cup created
                 /\ alerts_channel' = alerts_channel \cup created
                 /\ transactions_tbl' =
                        [transactions_tbl EXCEPT
                            ![portfolioID].rows = after.rows,
                            ![portfolioID].large =
                                Len(SelectSeq(rows, LAMBDA tx :
                                        tx.Amount > AMLThreshold /\ ~tx.AMLChecked))]
    /\ UNCHANGED <<now, gen, portfolio_tbl, risk_thresholds, eval, approval, pass,
                   risk_updates, quit, auth, hub, risk_metrics, risk_history, svc, calc>>

\* transactions arrive, the monitor checks a portfolio, and the time of the
\* velocity window or of the AML window has passed since the start
NextAML ==
    \/ \E p \in Portfolios : RecordTransaction(p)
    \/ \E p \in Portfolios : RecordSmallTransactions(p)
    \/ \E p \in Portfolios : CheckForAMLAlerts(p)
    \/ \E t \in {VelocityAlertWindow, AMLAlertWindow} : Tick(t)

SpecAML == Init /\ [][NextAML]_vars

----------------------------------------------------------------------------
(* websocket.Hub: Run, the clients' pumps and BroadcastToUser *)

\* make(chan []byte, 256), scaled down
SendBuffer == 1

\* every variable but hub
hubOthers ==
    <<alertVars, portfolio_tbl, risk_thresholds, eval, approval, pass, risk_updates,
      quit, auth, transactions_tbl, risk_metrics, risk_history, svc, calc>>

\* case client.send <- message as a select case or a plain send: a closed
\* channel panics, a channel with room takes the message, a full one does not
SendOutcome(ch) ==
    IF ch.closed THEN "panic"
    ELSE IF ch.len < SendBuffer THEN "sent"
    ELSE "full"

\* close(client.send): a second close panics
CloseOutcome(ch) == IF ch.closed THEN "panic" ELSE "closed"

\* HandleWebSocket: NewClient, then hub.register <- client, which waits for Run
HandleWebSocket(c) ==
    /\ hub.panic = "none"
    /\ hub.conn[c] = "none"
    /\ hub' = [hub EXCEPT !.conn[c] = "registering"]
    /\ UNCHANGED hubOthers

\* Run, case client := <-h.register: Lock, h.clients[client] = true, Unlock.
\* Lock waits for the reader BroadcastToUser.  HandleWebSocket goes on to
\* start WritePump and ReadPump.
RunRegister(c) ==
    /\ hub.panic = "none"
    /\ hub.run.pc = "select"
    /\ hub.caller.pc = "idle"
    /\ hub.conn[c] = "registering"
    /\ hub' = [hub EXCEPT !.clients = @ \cup {c},
                          !.conn[c] = "open",
                          !.run = [pc |-> "welcome", client |-> c, todo |-> {}]]
    /\ UNCHANGED hubOthers

\* Run, the welcome message: client.send <- data, waiting while the buffer is full
RunWelcome ==
    /\ hub.panic = "none"
    /\ hub.run.pc = "welcome"
    /\ SendOutcome(hub.send[hub.run.client]) /= "full"
    /\ IF SendOutcome(hub.send[hub.run.client]) = "panic"
          THEN hub' = [hub EXCEPT !.panic = "send on closed channel"]
          ELSE hub' = [hub EXCEPT !.send[hub.run.client].len = @ + 1,
                                  !.run = [pc |-> "select", client |-> "none",
                                           todo |-> {}]]
    /\ UNCHANGED hubOthers

\* ReadPump: ReadMessage fails, the loop breaks and the deferred
\* c.hub.unregister <- c waits for Run
ReadPumpExit(c) ==
    /\ hub.panic = "none"
    /\ hub.conn[c] = "open"
    /\ hub' = [hub EXCEPT !.conn[c] = "unregistering"]
    /\ UNCHANGED hubOthers

\* Run, case client := <-h.unregister: Lock; a client still in the map is
\* deleted and its channel closed; Unlock
RunUnregister(c) ==
    /\ hub.panic = "none"
    /\ hub.run.pc = "select"
    /\ hub.caller.pc = "idle"
    /\ hub.conn[c] = "unregistering"
    /\ IF c \in hub.clients
          THEN IF CloseOutcome(hub.send[c]) = "panic"
                  THEN hub' = [hub EXCEPT !.panic = "close of closed channel"]
                  ELSE hub' = [hub EXCEPT !.clients = @ \ {c},
                                          !.send[c].closed = TRUE,
                                          !.conn[c] = "gone"]
          ELSE hub' = [hub EXCEPT !.conn[c] = "gone"]
    /\ UNCHANGED hubOthers

\* Run, case message := <-h.broadcast, sent by BroadcastToAll or by the
\* handleMessage of a read pump: RLock, and the range over h.clients begins
RunBroadcast ==
    /\ hub.panic = "none"
    /\ hub.run.pc = "select"
    /\ hub' = [hub EXCEPT !.run = [pc |-> "broadcast", client |-> "none",
                                   todo |-> hub.clients]]
    /\ UNCHANGED hubOthers

\* Run, one client of the range: select { case client.send <- message:
\* default: close(client.send); delete(h.clients, client) }.  The delete is a
\* map write under the read lock: while BroadcastToUser ranges over the map
\* the runtime may stop the process.
RunBroadcastTo(c) ==
    /\ hub.panic = "none"
    /\ hub.run.pc = "broadcast"
    /\ c \in hub.run.todo
    /\ CASE SendOutcome(hub.send[c]) = "panic" ->
               hub' = [hub EXCEPT !.panic = "send on closed channel"]
         [] SendOutcome(hub.send[c]) = "sent" ->
               hub' = [hub EXCEPT !.send[c].len = @ + 1, !.run.todo = @ \ {c}]
         [] SendOutcome(hub.send[c]) = "full" ->
               \/ hub' = [hub EXCEPT !.send[c].closed = TRUE,
                                     !.clients = @ \ {c},
                                     !.run.todo = @ \ {c}]
               \/ /\ hub.caller.pc /= "idle"
                  /\ hub' = [hub EXCEPT !.send[c].closed = TRUE,
                                        !.panic = "concurrent map iteration and map write"]
    /\ UNCHANGED hubOthers

\* Run, the range is over: RUnlock, back to the select
RunBroadcastDone ==
    /\ hub.panic = "none"
    /\ hub.run.pc = "broadcast"
    /\ hub.run.todo = {}
    /\ hub' = [hub EXCEPT !.run = [pc |-> "select", client |-> "none", todo |-> {}]]
    /\ UNCHANGED hubOthers

\* WritePump: message, ok := <-c.send takes a buffered message
WritePump(c) ==
    /\ hub.panic = "none"
    /\ hub.conn[c] /= "none"
    /\ hub.send[c].len > 0
    /\ hub' = [hub EXCEPT !.send[c].len = @ - 1]
    /\ UNCHANGED hubOthers

\* BroadcastToUser: RLock, shared with the RLock of Run's broadcast case
BroadcastToUser ==
    /\ hub.panic = "none"
    /\ hub.caller.pc = "idle"
    /\ hub' = [hub EXCEPT !.caller = [pc |-> "range", client |-> "none", todo |-> {}]]
    /\ UNCHANGED hubOthers

\* BroadcastToUser: for client := range h.clients yields a client of the
\* user, one it has not visited (todo holds the clients visited)
BroadcastToUserNext(c) ==
    /\ hub.panic = "none"
    /\ hub.caller.pc = "range"
    /\ c \in hub.clients \ hub.caller.todo
    /\ hub' = [hub EXCEPT !.caller.pc = "send", !.caller.client = c]
    /\ UNCHANGED hubOthers

\* BroadcastToUser: select { case client.send <- data: default: }
BroadcastToUserSend ==
    /\ hub.panic = "none"
    /\ hub.caller.pc = "send"
    /\ LET c == hub.caller.client
       IN  CASE SendOutcome(hub.send[c]) = "panic" ->
                   hub' = [hub EXCEPT !.panic = "send on closed channel"]
             [] SendOutcome(hub.send[c]) = "sent" ->
                   hub' = [hub EXCEPT !.send[c].len = @ + 1,
                                      !.caller.pc = "range",
                                      !.caller.todo = @ \cup {c}]
             [] SendOutcome(hub.send[c]) = "full" ->
                   hub' = [hub EXCEPT !.caller.pc = "range",
                                      !.caller.todo = @ \cup {c}]
    /\ UNCHANGED hubOthers

\* BroadcastToUser: the range is over, the deferred RUnlock, return nil
BroadcastToUserDone ==
    /\ hub.panic = "none"
    /\ hub.caller.pc = "range"
    /\ hub.clients \ hub.caller.todo = {}
    /\ hub' = [hub EXCEPT !.caller = [pc |-> "idle", client |-> "none", todo |-> {}]]
    /\ UNCHANGED hubOthers

\* go hub.Run(), the connections with their pumps, and a caller of BroadcastToUser
NextHub ==
    \/ \E c \in Clients : HandleWebSocket(c)
    \/ \E c \in Clients : RunRegister(c)
    \/ RunWelcome
    \/ \E c \in Clients : ReadPumpExit(c)
    \/ \E c \in Clients : RunUnregister(c)
    \/ RunBroadcast
    \/ \E c \in Clients : RunBroadcastTo(c)
    \/ RunBroadcastDone
    \/ \E c \in Clients : WritePump(c)
    \/ BroadcastToUser
    \/ \E c \in Clients : BroadcastToUserNext(c)
    \/ BroadcastToUserSend
    \/ BroadcastToUserDone

SpecHub == Init /\ [][NextHub]_vars

\* C21: every RiskMetric row persisted by a VaR or a liquidity calculation has
\* a status that is one of SAFE, WARNING, CRITICAL.
C21_MetricStatusVocabulary ==
    \A i \in DOMAIN risk_metrics : risk_metrics[i].status \in {"SAFE", "WARNING", "CRITICAL"}

\* the Herfindahl index of the post-trade portfolio: the squared weights of
\* the positions and of the new one, each against the post-trade total
PostTradeHerfindahl(tx, portfolio) ==
    LET newPositionValue == tx.Quantity * tx.Price
        newTotalValue == portfolio.TotalValue + newPositionValue
    IN  RatAdd(Herfindahl(portfolio.Positions, newTotalValue),
               Rat(newPositionValue * newPositionValue, newTotalValue * newTotalValue))

\* C22: the concentration check reports a CONCENTRATION_LIMIT violation
\* exactly when the Herfindahl index of the post-trade portfolio (all
\* positions and the new one, weighted in the post-trade total) exceeds
\* MaxConcentration, and its impact is that index less the pre-trade index.
C22_PostTradeHerfindahl ==
    (/\ calc.fn = "checkConcentrationRisk"
     /\ calc.pc = "returned"
     /\ ~calc.result.panic
     /\ calc.portfolio.TotalValue /= 0) =>
        /\ calc.result.Violation /= <<>> <=>
               RatGreaterThan(PostTradeHerfindahl(calc.tx, calc.portfolio),
                              calc.thresholds.MaxConcentration)
        /\ calc.result.Impact =
               RatSub(PostTradeHerfindahl(calc.tx, calc.portfolio),
                      Herfindahl(calc.portfolio.Positions, calc.portfolio.TotalValue))

\* current/threshold >= k/10 for a threshold other than 0
RatioAtLeast(currentValue, threshold, k) ==
    IF threshold.num > 0
       THEN ~RatLessThan(currentValue, RatMul(threshold, Rat(k, 10)))
       ELSE ~RatGreaterThan(currentValue, RatMul(threshold, Rat(k, 10)))

\* C23: the VaR breach alert a manual breach check inserts is CRITICAL when
\* current/threshold >= 2.0, HIGH when >= 1.2, otherwise MEDIUM; the alert
\* the periodic monitor inserts is MEDIUM for the VaR status WARNING and HIGH
\* for CRITICAL.
C23_BreachSeverity ==
    (calc.pc = "returned" /\ Len(alerts) = 1) =>
        /\ alerts[1].alert_type = "RISK_BREACH"
        /\ (calc.fn = "CreateRiskBreachAlert" /\ calc.threshold.num /= 0) =>
              alerts[1].severity =
                  IF RatioAtLeast(calc.currentValue, calc.threshold, 20) THEN "CRITICAL"
                  ELSE IF RatioAtLeast(calc.currentValue, calc.threshold, 12) THEN "HIGH"
                  ELSE "MEDIUM"
        /\ calc.fn = "generateVaRAlert" =>
              alerts[1].severity = IF calc.Status = "WARNING" THEN "MEDIUM" ELSE "HIGH"

\* a manual breach alert at exactly twice the threshold was inserted as
\* CRITICAL
C23_Witness ==
    /\ calc.fn = "CreateRiskBreachAlert"
    /\ calc.pc = "returned"
    /\ calc.currentValue = Rat(10, 100)
    /\ calc.threshold = Rat(5, 100)
    /\ Len(alerts) = 1
    /\ alerts[1].severity = "CRITICAL"

\* C29: whenever no storeAndBroadcastAlert is between its dedup check and its
\* insert, the Redis set active_alerts holds exactly the ids of the alerts whose
\* database status is ACTIVE
C29_ActiveSetMatchesDatabase ==
    (\A e \in Evaluators : gen[e].pc /= "store")
        => active_alerts = {id \in DOMAIN alerts : alerts[id].status = "ACTIVE"}

\* C25: a completed pre-trade evaluation under thresholds with
\* RequireStopLoss, of a trade without a stop loss, is never approved
C25_NoStopLossNeverApproved ==
    \A r \in Requests :
        (/\ eval[r].pc = "done"
         /\ eval[r].kind = "trade"
         /\ eval[r].thresholds.RequireStopLoss
         /\ eval[r].tx.StopLoss = 0)
            => ~eval[r].analysis.Approved

\* a trade without stop loss, scored below 30, is held back for review with
\* STOP_LOSS_REQUIRED its only violation
C25_Witness ==
    /\ eval["r1"].pc = "done"
    /\ eval["r1"].kind = "trade"
    /\ eval["r1"].thresholds.RequireStopLoss
    /\ eval["r1"].tx.StopLoss = 0
    /\ RatLessThan(eval["r1"].analysis.RiskScore, Rat(30, 1))
    /\ Len(eval["r1"].analysis.Violations) = 1
    /\ eval["r1"].analysis.Violations[1].Type = "STOP_LOSS_REQUIRED"
    /\ ~eval["r1"].analysis.Approved
    /\ eval["r1"].analysis.RequiresReview

\* C26: under thresholds whose MaxVaR95 is not negative, a completed pre-trade
\* evaluation has no CRITICAL violation, and a trade it does not approve
\* requires review
C26_NoRejectOutcome ==
    \A r \in Requests :
        (/\ eval[r].pc = "done"
         /\ eval[r].kind = "trade"
         /\ ~RatLessThan(eval[r].thresholds.MaxVaR95, Rat(0, 1)))
            => /\ criticalCount(eval[r].analysis.Violations) = 0
               /\ ~eval[r].analysis.Approved => eval[r].analysis.RequiresReview

\* a trade with violations, none of them CRITICAL, is held back for review
C26_Witness ==
    /\ eval["r1"].pc = "done"
    /\ eval["r1"].kind = "trade"
    /\ ~RatLessThan(eval["r1"].thresholds.MaxVaR95, Rat(0, 1))
    /\ Len(eval["r1"].analysis.Violations) >= 2
    /\ ~eval["r1"].analysis.Approved
    /\ eval["r1"].analysis.RequiresReview

\* C24: at most one user exists per email, and a registration whose email
\* already belonged to a user when it began is answered with 400
C24_OneUserPerEmail ==
    /\ \A i, j \in DOMAIN auth.users : auth.users[i] = auth.users[j] => i = j
    /\ \A g \in Registrants :
          (auth.reg[g].pc = "done" /\ auth.reg[g].existed) => auth.reg[g].status = 400

\* two registrations of one email, both past the existence check before
\* either insert: one is created, the other refused, and one user exists
C24_Witness ==
    /\ auth.reg["g1"].pc = "done"
    /\ auth.reg["g2"].pc = "done"
    /\ auth.reg["g1"].email = auth.reg["g2"].email
    /\ ~auth.reg["g1"].existed
    /\ ~auth.reg["g2"].existed
    /\ auth.reg["g1"].status = 201
    /\ auth.reg["g2"].status = 400
    /\ Len(auth.users) = 1

\* C27: a step marks a transaction aml_checked only if an AML alert for that
\* transaction is persisted
C27_CheckedOnlyIfAlerted ==
    [][\A p \in Portfolios :
          \A i \in DOMAIN transactions_tbl[p].rows :
              (/\ i \in DOMAIN transactions_tbl'[p].rows
               /\ ~transactions_tbl[p].rows[i].AMLChecked
               /\ transactions_tbl'[p].rows[i].AMLChecked)
                  => \E a \in DOMAIN alerts' :
                        /\ alerts'[a].portfolio_id = p
                        /\ alerts'[a].source = "AML_CHECKER"
                        /\ alerts'[a].transaction_id = i]_vars

\* the SUSPICIOUS_ACTIVITY alerts of a portfolio in the alerts table
SuspiciousActivityAlerts(tbl, portfolioID) ==
    {a \in DOMAIN tbl : /\ tbl[a].portfolio_id = portfolioID
                        /\ tbl[a].alert_type = "SUSPICIOUS_ACTIVITY"}

\* C28: one pass of checkForAMLAlerts over a portfolio persists at most one
\* SUSPICIOUS_ACTIVITY alert for it, and none for another portfolio
C28_OneSuspiciousAlertPerPass ==
    [][\A p \in Portfolios :
          /\ Cardinality(SuspiciousActivityAlerts(alerts', p))
                <= Cardinality(SuspiciousActivityAlerts(alerts, p)) + 1
          /\ \A q \in Portfolios \ {p} :
                SuspiciousActivityAlerts(alerts', p) /= SuspiciousActivityAlerts(alerts, p)
                    => SuspiciousActivityAlerts(alerts', q)
                           = SuspiciousActivityAlerts(alerts, q)]_vars

\* the last pass over p1 found two large unchecked transactions; the first
\* raised the one alert there is and was marked, the second was suppressed
\* and stays unchecked
C28_Witness ==
    /\ transactions_tbl["p1"].large = 2
    /\ Cardinality(SuspiciousActivityAlerts(alerts, "p1")) = 1
    /\ transactions_tbl["p1"].rows[1].AMLChecked
    /\ ~transactions_tbl["p1"].rows[2].AMLChecked
    /\ \E a \in DOMAIN alerts : /\ alerts[a].source = "AML_CHECKER"
                                /\ alerts[a].transaction_id = 1
                                /\ alerts[a].created_at = now

\* C30: no send channel of a client is closed twice, and nothing is sent on
\* a send channel after its close: the process never panics on either
C30_NoSendAfterClose ==
    hub.panic \notin {"send on closed channel", "close of closed channel"}

====
